---- MODULE Spec2Model ----
(***************************************************************************)
(* Keyword similarity and metric estimation of KeywordVariantGenerator     *)
(* (scripts/knowledge/keyword_variants.py).                                *)
(*                                                                         *)
(* Strings are sequences of one-character strings, so that lower(),        *)
(* split(), the substring test and the n-gram analyzers are computed.      *)
(* Floats are fixed-point integers; a similarity is rounded down, the      *)
(* arithmetic of the estimate to the nearest unit:                         *)
(*   similarity, confidence : 1/SimScale   (1.0 = SimScale)                *)
(*   corpus cpc, competition: 1/100        (so competition 0.6 = 60)       *)
(*   estimated cpc, keyword_difficulty, competition: 1/Prec of the corpus  *)
(*   unit; search_volume is an integer in both.                            *)
(***************************************************************************)
EXTENDS Integers, Sequences, FiniteSets, TLC

(* ------------------------------ bounds --------------------------------- *)
\* largest number of corpus rows of a generator
MaxCorpus == 3
\* largest top_n handed to _find_similar_keywords
MaxTopN == 2
\* longest match list handed to _estimate_metrics directly
MaxMatches == 2
\* longest list handed to _enrich_keywords or _calculate_composite_metrics
MaxBatch == 3
\* most keywords of one segment beyond the quota of the segment
MaxExtra == 2
\* longest list handed to _enrich_keywords when the operations are called in
\* any order
MaxCalls == 1
\* most keywords retrieved, and most generated, for one ad
MaxRetrieved == 2
\* most other cache keys looked up
MaxFresh == 100
\* the latest time of the clock, in seconds
MaxClock == 3600
\* most chunks pulled from the LLM stream
MaxChunks == 3

(* ------------------------- fixed-point units --------------------------- *)
SimScale == 10000
Prec == 100
\* scale of one component of an L2-normalised tf-idf vector
UnitScale == 40000
\* scale of an idf weight
IdfScale == 1000

(* ------------------------------ strings -------------------------------- *)
SP == <<" ">>
W_running == <<"r","u","n","n","i","n","g">>
W_shoes == <<"s","h","o","e","s">>
W_best == <<"b","e","s","t">>
W_for == <<"f","o","r">>
W_marathon == <<"m","a","r","a","t","h","o","n">>
W_nike == <<"n","i","k","e">>
W_how == <<"h","o","w">>
W_to == <<"t","o">>
W_run == <<"r","u","n">>
W_show == <<"s","h","o","w">>
W_Nike == <<"N","i","k","e">>
W_Shoes == <<"S","h","o","e","s">>
W_RUNNING == <<"R","U","N","N","I","N","G">>
W_SHOES == <<"S","H","O","E","S">>
W_zzz == <<"z","z","z">>

K_running_shoes == W_running \o SP \o W_shoes
K_RUNNING_SHOES == W_RUNNING \o SP \o W_SHOES
K_Nike_Shoes == W_Nike \o SP \o W_Shoes
K_nike_shoes == W_nike \o SP \o W_shoes
K_shoes == W_shoes
K_run == W_run
K_how_to_run == W_how \o SP \o W_to \o SP \o W_run
K_best_running_shoes_for_marathon ==
    W_best \o SP \o W_running \o SP \o W_shoes \o SP \o W_for \o SP \o W_marathon
K_nike_running_shoes == W_nike \o SP \o W_running \o SP \o W_shoes
K_how_to_run_nike_shoes ==
    W_how \o SP \o W_to \o SP \o W_run \o SP \o W_nike \o SP \o W_shoes
K_show_shoes == W_show \o SP \o W_shoes
K_zzz == W_zzz

\* str.lower() on one character
LowerChar(c) ==
    CASE c = "A" -> "a" [] c = "B" -> "b" [] c = "C" -> "c" [] c = "D" -> "d"
      [] c = "E" -> "e" [] c = "F" -> "f" [] c = "G" -> "g" [] c = "H" -> "h"
      [] c = "I" -> "i" [] c = "J" -> "j" [] c = "K" -> "k" [] c = "L" -> "l"
      [] c = "M" -> "m" [] c = "N" -> "n" [] c = "O" -> "o" [] c = "P" -> "p"
      [] c = "Q" -> "q" [] c = "R" -> "r" [] c = "S" -> "s" [] c = "T" -> "t"
      [] c = "U" -> "u" [] c = "V" -> "v" [] c = "W" -> "w" [] c = "X" -> "x"
      [] c = "Y" -> "y" [] c = "Z" -> "z" [] OTHER -> c

\* str.lower()
Lower(s) == [i \in 1..Len(s) |-> LowerChar(s[i])]

\* str.split(): the maximal runs of non-space characters, in order
RECURSIVE SplitFrom(_, _, _, _)
SplitFrom(s, i, cur, acc) ==
    IF i > Len(s)
      THEN IF cur = <<>> THEN acc ELSE Append(acc, cur)
      ELSE IF s[i] = " "
             THEN SplitFrom(s, i + 1, <<>>, IF cur = <<>> THEN acc ELSE Append(acc, cur))
             ELSE SplitFrom(s, i + 1, Append(cur, s[i]), acc)

Split(s) == SplitFrom(s, 1, <<>>, <<>>)

\* the Python test `sub in s` on strings
Contains(s, sub) ==
    \E i \in 1..(Len(s) - Len(sub) + 1) : SubSeq(s, i, i + Len(sub) - 1) = sub

(* ---------------------------- arithmetic -------------------------------- *)
Min(a, b) == IF a <= b THEN a ELSE b
Max(a, b) == IF a >= b THEN a ELSE b

\* sum of f over the finite set S, f a function defined on S
RECURSIVE SumSet(_, _)
SumSet(S, f) ==
    IF S = {} THEN 0
    ELSE LET t == CHOOSE u \in S : TRUE IN f[t] + SumSet(S \ {t}, f)

\* sum of f[i] for i in lo..hi
RECURSIVE SumRange(_, _, _)
SumRange(f, lo, hi) == IF lo > hi THEN 0 ELSE f[lo] + SumRange(f, lo + 1, hi)

\* the least r in lo..hi with r * r >= x
RECURSIVE SqrtSearch(_, _, _)
SqrtSearch(x, lo, hi) ==
    IF lo >= hi THEN lo
    ELSE LET mid == (lo + hi) \div 2
         IN  IF mid * mid >= x THEN SqrtSearch(x, lo, mid)
                               ELSE SqrtSearch(x, mid + 1, hi)

\* the square root rounded up
CeilSqrt(x) == SqrtSearch(x, 0, 46340)

\* <<y, k>> with y = x * k * k, k the largest power of two that keeps y
\* below 2^29: CeilSqrt(y) / k is the square root of x to k times the precision
RECURSIVE ScaleUp(_, _)
ScaleUp(x, k) == IF x = 0 \/ x * 4 >= 536870912 THEN <<x, k>> ELSE ScaleUp(x * 4, k * 2)

\* floor(a * b / c) for b >= 0 and c > 0, without forming a * b
MulDiv(a, b, c) == (a \div c) * b + ((a % c) * b) \div c

\* a / c rounded to the nearest integer, for c > 0
RoundDiv(a, c) == (2 * a + c) \div (2 * c)

\* a * b / c rounded to the nearest integer, without forming a * b
MulRoundDiv(a, b, c) == (a \div c) * b + RoundDiv((a % c) * b, c)

(* ------------------------ the two TfidfVectorizers ---------------------- *)
\* analyzer="char_wb", ngram_range=(2, 5): every word of the lower-cased
\* text, padded with one space on each side, gives its substrings of 2..5
\* characters; the bag of them, as a function from n-gram to count
CharCounts(doc) ==
    LET ws == Split(Lower(doc))
        occ == UNION { { <<k, n, i>> : i \in 1..(Len(ws[k]) + 3 - n) } :
                       <<k, n>> \in (DOMAIN ws) \X (2..5) }
        gram(o) == SubSeq(SP \o ws[o[1]] \o SP, o[3], o[3] + o[2] - 1)
        terms == { gram(o) : o \in occ }
    IN  [t \in terms |-> Cardinality({ o \in occ : gram(o) = t })]

\* analyzer="word", ngram_range=(1, 2): the tokens are the words of two or
\* more characters of the lower-cased text (token_pattern \b\w\w+\b); the
\* bag of the tokens and of the pairs of adjacent tokens
WordCounts(doc) ==
    LET toks == SelectSeq(Split(Lower(doc)), LAMBDA w : Len(w) >= 2)
        occ == UNION { { <<n, i>> : i \in 1..(Len(toks) + 1 - n) } : n \in 1..2 }
        gram(o) == SubSeq(toks, o[2], o[2] + o[1] - 1)
        terms == { gram(o) : o \in occ }
    IN  [t \in terms |-> Cardinality({ o \in occ : gram(o) = t })]

\* 1000 * ln(k), k = 1..8
LnMilli == <<0, 693, 1099, 1386, 1609, 1792, 1946, 2079>>

\* smooth idf of a term found in df of n documents: ln((1 + n) / (1 + df)) + 1
Idf(n, df) == IdfScale + LnMilli[1 + n] - LnMilli[1 + df]

\* fit: the idf of every term of the corpus; counts is the sequence of the
\* documents' bags. The domain of the result is the fitted vocabulary.
FitIdf(counts) ==
    LET vocab == UNION { DOMAIN counts[d] : d \in DOMAIN counts }
    IN  [t \in vocab |->
            Idf(Len(counts), Cardinality({ d \in DOMAIN counts : t \in DOMAIN counts[d] }))]

\* transform: the tf-idf vector of one bag over the fitted vocabulary,
\* L2-normalised (norm="l2"); terms outside the vocabulary are dropped
TfidfVector(bag, idf) ==
    LET terms == (DOMAIN bag) \cap (DOMAIN idf)
        raw == [t \in terms |-> bag[t] * idf[t]]
        sq == ScaleUp(SumSet(terms, [t \in terms |-> raw[t] * raw[t]]), 1)
        norm == CeilSqrt(sq[1])
    IN  IF norm = 0 THEN [t \in {} |-> 0]
        ELSE [t \in terms |-> MulDiv(raw[t] * UnitScale, sq[2], norm)]

\* sklearn cosine_similarity of two unit vectors
CosineSimilarity(x, y) ==
    LET common == (DOMAIN x) \cap (DOMAIN y)
    IN  SumSet(common, [t \in common |-> x[t] * y[t]])
            \div ((UnitScale * UnitScale) \div SimScale)

(* ------------------------------ the corpus ------------------------------ *)
\* a row of the semrush_keywords table
Row(k, sv, c, kd, comp) ==
    [keyword |-> k, search_volume |-> sv, cpc |-> c,
     keyword_difficulty |-> kd, competition |-> comp]

\* the rows a corpus is drawn from, in table order; the last two hold
\* malformed values (a negative volume and cpc, a difficulty above 100, a
\* competition above 1)
RowPool ==
    << Row(K_running_shoes, 10000, 150, 40, 60),
       Row(K_Nike_Shoes, 5000, 200, 55, 80),
       Row(K_how_to_run, 1200, 80, 35, 40),
       Row(K_run, 800, 50, 20, 10),
       Row(K_shoes, -300, -20, 120, 30),
       Row(K_nike_running_shoes, 4000, 180, 45, 150) >>

\* a column of a row that is null in the table: None in result.data,
\* written as a number no metric has
None == 0 - 1000000

\* a row whose cpc is null
NullRow == Row(K_how_to_run, 1200, None, 35, 40)

\* the rows of RowPool at the positions of S, in table order
RECURSIVE RowsAt(_, _)
RowsAt(S, i) ==
    IF i > Len(RowPool) THEN <<>>
    ELSE (IF i \in S THEN <<RowPool[i]>> ELSE <<>>) \o RowsAt(S, i + 1)

\* the non-empty corpora of at most MaxCorpus rows
Corpora ==
    { RowsAt(S, 1) : S \in { T \in SUBSET (1..Len(RowPool)) :
                               Cardinality(T) \in 1..MaxCorpus } }

\* the keywords handed to the pipeline
Keywords ==
    { K_running_shoes, K_RUNNING_SHOES, K_nike_shoes, K_shoes, K_run,
      K_best_running_shoes_for_marathon, K_nike_running_shoes,
      K_how_to_run_nike_shoes, K_show_shoes, K_zzz }

(* ------------------------------- state ---------------------------------- *)
VARIABLES
    semrush_keywords,   \* self.semrush_keywords: the rows of the table
    keyword_data_map,   \* self.keyword_data_map: keyword -> row
    char_idf,           \* the fitted char_vectorizer (vocabulary and idf)
    char_vectors,       \* self.char_vectors: one vector per row
    word_idf,           \* the fitted word_vectorizer
    word_vectors,       \* self.word_vectors
    pc,                 \* the position of the caller in the pipeline
    keyword,            \* the keyword of the call in progress
    top_n,              \* its top_n
    similar_keywords,   \* the list returned by _find_similar_keywords
    metrics,            \* the dictionary returned by _estimate_metrics
    base_keywords,      \* the match list of the previous _estimate_metrics call
    base_metrics,       \* and the dictionary it returned
    batch,              \* the keywords handed to _enrich_keywords
    variants,           \* the KeywordVariant list of the batch operations
    prev_variants,      \* the list an earlier run of the pipeline returned
    ranked              \* the list returned by _rank_and_prioritize

\* the state of the KnowledgeBase and of the requests it serves
VARIABLES
    query_cache,        \* self.query_cache: cache key -> (result, timestamp)
    lru,                \* the entries of the lru_cache wrapper, oldest first
    now,                \* time.time()
    fresh_keys,         \* the number of other cache keys used so far
    returned,           \* what the last cache lookup or retrieval returned
    queried,            \* whether that call has queried the retriever
    cache_call,         \* that call: its name, its key, and the result that
                        \* was stored and not expired when it began
    sq_pc,              \* where the generator of stream_query is suspended
    eg_pc,              \* where event_generator is suspended
    chunk_count,        \* chunks pulled from the LLM stream
    produced,           \* the lines next(stream_gen) has returned
    received,           \* the items the client has received
    pending,            \* the call of get_next_item in the executor
    closed,             \* the consumer has closed the stream
    discarded,          \* items yielded by a generator that is being closed
    close_raised,       \* closing event_generator has raised
    late_pull,          \* the LLM stream was pulled after the close
    q_request,          \* the last call of KnowledgeBase.query
    q_outcome,          \* how that call ended
    q_status,           \* the HTTP status of query_endpoint, 0 without it
    llm_model,          \* self.perplexity_llm.model
    last_citations,     \* self.perplexity_llm.last_citations
    requests            \* the two concurrent requests

cache_vars == <<query_cache, lru, now, fresh_keys, returned, queried, cache_call>>
stream_vars == <<sq_pc, eg_pc, chunk_count, produced, received, pending, closed,
                 discarded, close_raised, late_pull>>
query_vars == <<q_request, q_outcome, q_status>>
llm_vars == <<llm_model, last_citations>>
kb_vars == <<cache_vars, stream_vars, query_vars, llm_vars, requests>>

index_vars == <<semrush_keywords, keyword_data_map, char_idf, char_vectors,
                word_idf, word_vectors>>
vars == <<semrush_keywords, keyword_data_map, char_idf, char_vectors,
          word_idf, word_vectors, pc, keyword, top_n, similar_keywords, metrics,
          base_keywords, base_metrics, batch, variants, prev_variants, ranked,
          kb_vars>>
call_vars == <<keyword, top_n, similar_keywords, metrics, base_keywords,
               base_metrics>>
batch_vars == <<batch, variants, prev_variants, ranked>>
\* the batch operations not yet called
NoBatch ==
    /\ batch = <<>>
    /\ variants = <<>>
    /\ prev_variants = <<>>
    /\ ranked = <<>>

\* an item of a stream: the generator that yielded it, what it is, and for
\* a line of stream_query the number of text pieces in its response
Line(from, kind, n) == [from |-> from, kind |-> kind, n |-> n]
\* "data: [DONE]\n\n"
DoneLine(from) == Line(from, "done", 0)
\* no call of get_next_item is submitted
NoItem == Line("none", "none", 0)
\* loop.run_in_executor(None, get_next_item) is submitted and has not run
Submitted == Line("event_generator", "submitted", 0)
\* get_next_item has returned None: StopIteration
StopItem == Line("stream_query", "stop", 0)
\* get_next_item has raised the exception of stream_query
RaisedItem == Line("stream_query", "raised", 0)

\* a request to /knowledge/query/stream has arrived, nothing has run
NoStream ==
    /\ sq_pc = "start"
    /\ eg_pc = "start"
    /\ chunk_count = 0
    /\ produced = <<>>
    /\ received = <<>>
    /\ pending = NoItem
    /\ closed = FALSE
    /\ discarded = <<>>
    /\ close_raised = FALSE
    /\ late_pull = FALSE

\* no call of KnowledgeBase.query
NoRequest ==
    [query |-> <<>>, deep_research |-> FALSE, detail_level |-> 0,
     attribution_analysis |-> FALSE, llm |-> "ok"]
NoOutcome == [kind |-> "none", error |-> "", keys |-> {}]

NoQuery ==
    /\ q_request = NoRequest
    /\ q_outcome = NoOutcome
    /\ q_status = 0

\* PerplexityLLM(model="sonar-pro", temperature=0.1)
NoLLM ==
    /\ llm_model = "sonar-pro"
    /\ last_citations = 0

\* a request that has not arrived
Idle == [kind |-> "none", detail_level |-> 0, pc |-> "idle",
         used_model |-> "", reported |-> 0]

NoRequests == requests = [r \in 1..2 |-> Idle]

\* KnowledgeBase(): no query cached, nothing looked up
NoCache ==
    /\ query_cache = <<>>
    /\ lru = <<>>
    /\ now = 0
    /\ fresh_keys = 0
    /\ returned = None
    /\ queried = FALSE
    /\ cache_call = [op |-> "none", key |-> 0, stored_before |-> None]

NoKB == NoCache /\ NoStream /\ NoQuery /\ NoLLM /\ NoRequests

gen_vars == <<index_vars, pc, call_vars, batch_vars>>
not_cache_vars == <<gen_vars, stream_vars, query_vars, llm_vars, requests>>
not_stream_vars == <<gen_vars, cache_vars, query_vars, llm_vars, requests>>
not_query_vars == <<gen_vars, cache_vars, stream_vars, requests>>
not_llm_vars == <<gen_vars, cache_vars, stream_vars, query_vars>>

\* {item["keyword"]: item for item in rows}: the key is the keyword as
\* stored, and a later row replaces an earlier one with the same keyword
KeywordDataMap(rows) ==
    [k \in { rows[i].keyword : i \in DOMAIN rows } |->
        rows[CHOOSE i \in DOMAIN rows :
                /\ rows[i].keyword = k
                /\ \A j \in DOMAIN rows : rows[j].keyword = k => j <= i]]

\* vectorizer.fit_transform(keywords): the row vectors over the fitted idf
FitTransform(counts) ==
    LET idf == FitIdf(counts)
    IN  [d \in DOMAIN counts |-> TfidfVector(counts[d], idf)]

\* the selected fields of a row, as _find_similar_keywords copies them
MetricsOf(row) ==
    [search_volume |-> row.search_volume, cpc |-> row.cpc,
     keyword_difficulty |-> row.keyword_difficulty,
     competition |-> row.competition]

Match(k, sim, row) == [keyword |-> k, similarity |-> sim, metrics |-> MetricsOf(row)]

(* ------------------------ _find_similar_keywords ------------------------ *)
\* similarity_score > 0.3
SimThreshold == 3000
\* the largest rounding error of a fixed-point combined similarity
SimRounding == 5

\* (char_similarities * 0.4) + (word_similarities * 0.6), per row
CombinedSimilarities(kw) ==
    LET cv == TfidfVector(CharCounts(kw), char_idf)
        wv == TfidfVector(WordCounts(kw), word_idf)
    IN  [i \in DOMAIN semrush_keywords |->
            (4 * CosineSimilarity(cv, char_vectors[i])
               + 6 * CosineSimilarity(wv, word_vectors[i])) \div 10]

\* numpy argsort of a short array: the indices by ascending value, equal
\* values in index order
ArgSort(a) ==
    LET rank(i) == 1 + Cardinality({ j \in DOMAIN a :
                        a[j] < a[i] \/ (a[j] = a[i] /\ j < i) })
    IN  [p \in DOMAIN a |-> CHOOSE i \in DOMAIN a : rank(i) = p]

\* a[-n:][::-1]: the Python slice from index -n to the end, reversed
LastReversed(a, n) ==
    LET len == Len(a)
        start == IF n > 0 THEN Max(0, len - n) ELSE Min(len, 0 - n)
    IN  [p \in 1..(len - start) |-> a[len + 1 - p]]

\* a slice taken from the wrong end: argsort()[:top_n]
TopIndicesFromStart(combined, n) == SubSeq(ArgSort(combined), 1, Min(n, Len(combined)))

TopIndices(combined, n) == LastReversed(ArgSort(combined), n)

\* the vector branch without the threshold test
find_similar_keywords_unfiltered(kw, n) ==
    IF Lower(kw) \in DOMAIN keyword_data_map
      THEN << Match(Lower(kw), SimScale, keyword_data_map[Lower(kw)]) >>
      ELSE LET combined == CombinedSimilarities(kw)
               top_indices == TopIndices(combined, n)
           IN  [p \in DOMAIN top_indices |->
                   Match(semrush_keywords[top_indices[p]].keyword,
                         combined[top_indices[p]],
                         semrush_keywords[top_indices[p]])]

find_similar_keywords(kw, n) ==
    IF Lower(kw) \in DOMAIN keyword_data_map
      THEN << Match(Lower(kw), SimScale, keyword_data_map[Lower(kw)]) >>
      ELSE LET combined == CombinedSimilarities(kw)
               top_indices == TopIndices(combined, n)
               kept == SelectSeq(top_indices, LAMBDA idx : combined[idx] > SimThreshold)
           IN  [p \in DOMAIN kept |->
                   Match(semrush_keywords[kept[p]].keyword, combined[kept[p]],
                         semrush_keywords[kept[p]])]

(* --------------------------- _estimate_metrics -------------------------- *)
\* kw["similarity"] > 0.99
NearExact == 9900

\* the dictionary returned when similar_keywords is empty
DefaultMetrics ==
    [search_volume |-> 0, cpc |-> 0, keyword_difficulty |-> 0,
     competition |-> 0, confidence |-> 0]

\* the dictionary returned by the except branch
FallbackMetrics ==
    [search_volume |-> 0, cpc |-> 0, keyword_difficulty |-> 0,
     competition |-> 0, confidence |-> 0]

\* the dictionary returned for the match m of similarity > 0.99: its
\* metrics as they are, the float fields in units of 1/Prec
VerbatimMetrics(m) ==
    [search_volume |-> m.metrics.search_volume,
     cpc |-> IF m.metrics.cpc = None THEN None ELSE m.metrics.cpc * Prec,
     keyword_difficulty |-> IF m.metrics.keyword_difficulty = None THEN None
                            ELSE m.metrics.keyword_difficulty * Prec,
     competition |-> IF m.metrics.competition = None THEN None
                     ELSE m.metrics.competition * Prec,
     confidence |-> SimScale]

\* a metric of a match is None: the weighted sums raise TypeError
HasNone(sk) ==
    \E i \in DOMAIN sk :
        \E f \in {"search_volume", "cpc", "keyword_difficulty", "competition"} :
            sk[i].metrics[f] = None

\* sum(kw["similarity"] for kw in similar_keywords)
TotalWeight(sk) == SumRange([i \in DOMAIN sk |-> sk[i].similarity], 1, Len(sk))

\* the confidence taken from the first match alone
ConfidenceOfFirst(sk) == Min(SimScale, RoundDiv(2 * sk[1].similarity, Len(sk)))

\* the confidence without its cap
ConfidenceUncapped(sk) == RoundDiv(2 * TotalWeight(sk), Len(sk))

\* min(1.0, total_weight / len(similar_keywords) * 2)
Confidence(sk) == Min(SimScale, RoundDiv(2 * TotalWeight(sk), Len(sk)))

\* the plain mean, the similarities ignored
UnweightedMean(sk, field) ==
    MulRoundDiv(SumRange([i \in DOMAIN sk |-> sk[i].metrics[field]], 1, Len(sk)),
                Prec, Len(sk))

\* sum(kw["metrics"][field] * kw["similarity"]) / total_weight, in 1/Prec
WeightedMean(sk, field) ==
    MulRoundDiv(SumRange([i \in DOMAIN sk |-> sk[i].metrics[field] * sk[i].similarity],
                         1, Len(sk)),
                Prec, TotalWeight(sk))

\* the interrogative words of the question test
QuestionWords == { W_how, <<"w","h","a","t">>, <<"w","h","y">>,
                   <<"w","h","e","n">>, <<"w","h","e","r","e">>,
                   <<"w","h","i","c","h">> }

\* word_count > 3
IsLongTail(kw) == Len(Split(kw)) > 3
\* any(q in keyword.lower() for q in [...])
IsQuestion(kw) == \E q \in QuestionWords : Contains(Lower(kw), q)
\* "nike" in keyword.lower()
IsBrand(kw) == Contains(Lower(kw), W_nike)

\* x * (num / 10), one multiplicative adjustment
Times(x, num) == RoundDiv(x * num, 10)

\* the adjustments with the brand factors given to the wrong fields
AdjustedMetricsBrandOnCpc(kw, sk) ==
    LET volume0 == WeightedMean(sk, "search_volume")
        cpc0 == WeightedMean(sk, "cpc")
        difficulty == WeightedMean(sk, "keyword_difficulty")
        competition0 == WeightedMean(sk, "competition")
        volume1 == IF IsLongTail(kw) THEN Times(volume0, 8) ELSE volume0
        competition1 == IF IsLongTail(kw) THEN Times(competition0, 7) ELSE competition0
        volume2 == IF IsQuestion(kw) THEN Times(volume1, 9) ELSE volume1
        cpc1 == IF IsQuestion(kw) THEN Times(cpc0, 9) ELSE cpc0
        cpc2 == IF IsBrand(kw) THEN Times(cpc1, 12) ELSE cpc1
        competition2 == IF IsBrand(kw) THEN Times(competition1, 11) ELSE competition1
    IN  [search_volume |-> Max(0, volume2) \div Prec,
         cpc |-> Max(0, cpc2),
         keyword_difficulty |-> Max(0, Min(100 * Prec, difficulty)),
         competition |-> Max(0, Min(100 * Prec, competition2)),
         confidence |-> Confidence(sk)]

\* the three adjustments and the final clamps of the weighted estimate
AdjustedMetrics(kw, sk) ==
    LET volume0 == WeightedMean(sk, "search_volume")
        cpc0 == WeightedMean(sk, "cpc")
        difficulty == WeightedMean(sk, "keyword_difficulty")
        competition0 == WeightedMean(sk, "competition")
        volume1 == IF IsLongTail(kw) THEN Times(volume0, 8) ELSE volume0
        competition1 == IF IsLongTail(kw) THEN Times(competition0, 7) ELSE competition0
        volume2 == IF IsQuestion(kw) THEN Times(volume1, 9) ELSE volume1
        cpc1 == IF IsQuestion(kw) THEN Times(cpc0, 9) ELSE cpc0
        volume3 == IF IsBrand(kw) THEN Times(volume2, 12) ELSE volume2
        competition2 == IF IsBrand(kw) THEN Times(competition1, 11) ELSE competition1
    IN  [search_volume |-> Max(0, volume3) \div Prec,
         cpc |-> Max(0, cpc1),
         keyword_difficulty |-> Max(0, Min(100 * Prec, difficulty)),
         competition |-> Max(0, Min(100 * Prec, competition2)),
         confidence |-> Confidence(sk)]

\* the first match of similarity > 0.99, 0 if there is none
FirstNearExact(sk) ==
    IF \E i \in DOMAIN sk : sk[i].similarity > NearExact
      THEN CHOOSE i \in DOMAIN sk :
              /\ sk[i].similarity > NearExact
              /\ \A j \in 1..(i - 1) : sk[j].similarity <= NearExact
      ELSE 0

\* the estimate without the near-exact return
estimate_metrics_always_weighted(kw, sk) ==
    IF sk = <<>> THEN DefaultMetrics
    ELSE IF TotalWeight(sk) = 0 THEN FallbackMetrics
    ELSE AdjustedMetrics(kw, sk)

estimate_metrics(kw, sk) ==
    IF sk = <<>> THEN DefaultMetrics
    ELSE IF FirstNearExact(sk) # 0 THEN VerbatimMetrics(sk[FirstNearExact(sk)])
    ELSE IF TotalWeight(sk) = 0 THEN FallbackMetrics   \* ZeroDivisionError
    ELSE IF HasNone(sk) THEN FallbackMetrics            \* TypeError
    ELSE AdjustedMetrics(kw, sk)

NoMetrics ==
    [search_volume |-> 0, cpc |-> 0, keyword_difficulty |-> 0,
     competition |-> 0, confidence |-> 0]

(* ------------------------------ actions --------------------------------- *)
\* the index built by _initialize_keyword_similarity from the rows
IndexOf(rows) ==
    /\ semrush_keywords = rows
    /\ keyword_data_map = KeywordDataMap(rows)
    /\ char_idf = FitIdf([d \in DOMAIN rows |-> CharCounts(rows[d].keyword)])
    /\ char_vectors = FitTransform([d \in DOMAIN rows |-> CharCounts(rows[d].keyword)])
    /\ word_idf = FitIdf([d \in DOMAIN rows |-> WordCounts(rows[d].keyword)])
    /\ word_vectors = FitTransform([d \in DOMAIN rows |-> WordCounts(rows[d].keyword)])

\* KeywordVariantGenerator(): the table is read and both vectorizers fitted
Init ==
    /\ \E rows \in Corpora : IndexOf(rows)
    /\ pc = "idle"
    /\ keyword = <<>>
    /\ top_n = 0
    /\ similar_keywords = <<>>
    /\ metrics = NoMetrics
    /\ base_keywords = <<>>
    /\ base_metrics = NoMetrics
    /\ NoBatch
    /\ NoKB

\* similar_keywords = self._find_similar_keywords(keyword)
FindSimilarKeywords(kw, n) ==
    /\ pc = "idle"
    /\ keyword' = kw
    /\ top_n' = n
    /\ similar_keywords' = find_similar_keywords(kw, n)
    /\ pc' = "found"
    /\ UNCHANGED <<kb_vars, index_vars, metrics, base_keywords, base_metrics, batch_vars>>

\* metrics = self._estimate_metrics(keyword, similar_keywords)
EstimateMetrics ==
    /\ pc = "found"
    /\ metrics' = estimate_metrics(keyword, similar_keywords)
    /\ pc' = "estimated"
    /\ UNCHANGED <<kb_vars, index_vars, keyword, top_n, similar_keywords,
                   base_keywords, base_metrics, batch_vars>>

Next ==
    \/ \E kw \in Keywords, n \in 1..MaxTopN : FindSimilarKeywords(kw, n)
    \/ EstimateMetrics

Spec == Init /\ [][Next]_vars

(* ------------- _estimate_metrics over bounded match lists --------------- *)
MatchOf(sim, sv, c, kd, comp) ==
    [keyword |-> K_shoes, similarity |-> sim,
     metrics |-> [search_volume |-> sv, cpc |-> c,
                  keyword_difficulty |-> kd, competition |-> comp]]

\* the matches a list is drawn from: similarities on both sides of 0.99,
\* malformed metric values, and a match of similarity 0
MatchPool ==
    { MatchOf(10000, 10000, 150, 40, 60),
      MatchOf(9950, 5000, 200, 55, 80),
      MatchOf(9000, -300, -20, 120, 150),
      MatchOf(4500, 1200, 80, 35, 40),
      MatchOf(3100, 4000, 180, 45, 90),
      MatchOf(0, 800, 50, 20, 10) }

RECURSIVE ListsUpTo(_)
ListsUpTo(n) ==
    IF n = 0 THEN { <<>> }
    ELSE ListsUpTo(n - 1) \cup
         { Append(l, m) : l \in { x \in ListsUpTo(n - 1) : Len(x) = n - 1 },
                          m \in MatchPool }

EstKeywords ==
    { K_shoes, K_best_running_shoes_for_marathon, K_nike_running_shoes,
      K_how_to_run_nike_shoes, K_show_shoes }

\* l with m inserted so that it becomes element number pos
InsertAt(l, pos, m) == SubSeq(l, 1, pos - 1) \o <<m>> \o SubSeq(l, pos, Len(l))

InitEst ==
    /\ IndexOf(<<RowPool[1]>>)
    /\ pc = "found"
    /\ keyword \in EstKeywords
    /\ top_n = 0
    /\ similar_keywords \in ListsUpTo(MaxMatches)
    /\ metrics = NoMetrics
    /\ base_keywords = <<>>
    /\ base_metrics = NoMetrics
    /\ NoBatch
    /\ NoKB

\* _estimate_metrics called again for the same keyword with one more match
EstimateExtended(m, pos) ==
    /\ pc = "estimated"
    /\ base_keywords' = similar_keywords
    /\ base_metrics' = metrics
    /\ similar_keywords' = InsertAt(similar_keywords, pos, m)
    /\ metrics' = estimate_metrics(keyword, similar_keywords')
    /\ pc' = "extended"
    /\ UNCHANGED <<kb_vars, index_vars, keyword, top_n, batch_vars>>

NextEst ==
    \/ EstimateMetrics
    \/ \E m \in MatchPool, pos \in 1..(Len(similar_keywords) + 1) :
          EstimateExtended(m, pos)

SpecEst == InitEst /\ [][NextEst]_vars

(* ---------------------- _calculate_composite_metrics -------------------- *)
\* KeywordVariant(keyword=..., source=..., ...): efficiency_index has its
\* default 0.0; cpc, keyword_difficulty and competition_percentage are in
\* the units of the estimate, confidence_score and efficiency_index in
\* 1/SimScale. The explanation is written by another stage and left out.
KeywordVariant(kw, source, m, sk) ==
    [keyword |-> kw, source |-> source,
     search_volume |-> m.search_volume, cpc |-> m.cpc,
     keyword_difficulty |-> m.keyword_difficulty,
     competition_percentage |-> m.competition,
     efficiency_index |-> 0,
     confidence_score |-> m.confidence,
     similar_keywords |-> sk]

\* a / c rounded to the nearest integer, c of either sign
Quot(a, c) == IF c < 0 THEN RoundDiv(0 - a, 0 - c) ELSE RoundDiv(a, c)

\* max(f) over the elements of a non-empty list
MaxOf(kws, field) ==
    CHOOSE x \in { kws[i][field] : i \in DOMAIN kws } :
        \A j \in DOMAIN kws : kws[j][field] <= x

\* max(...) or 1
MaxOr1(kws, field) == IF MaxOf(kws, field) = 0 THEN 1 ELSE MaxOf(kws, field)

\* min(1.0, value / max_value), in 1/SimScale
Score(value, max_value) == Min(SimScale, Quot(value * SimScale, max_value))

\* the weighted score with the weights of volume and cpc exchanged
WeightedScoreCpcFirst(k, max_volume, max_cpc) ==
    RoundDiv(10 * Score(k.search_volume, max_volume)
               + 25 * (SimScale - k.keyword_difficulty)
               + 25 * (SimScale - k.competition_percentage)
               + 40 * Score(k.cpc, max_cpc), 100)

\* volume_score * 0.4 + difficulty_inverse * 0.25 + competition_inverse * 0.25
\* + cpc_score * 0.1; difficulty / 100 and the competition are both the
\* stored value over SimScale
WeightedScore(k, max_volume, max_cpc) ==
    RoundDiv(40 * Score(k.search_volume, max_volume)
               + 25 * (SimScale - k.keyword_difficulty)
               + 25 * (SimScale - k.competition_percentage)
               + 10 * Score(k.cpc, max_cpc), 100)

\* the index without its final clamp
EfficiencyIndexUnclamped(k, max_volume, max_cpc) ==
    MulRoundDiv(WeightedScore(k, max_volume, max_cpc),
                SimScale + k.confidence_score, 2 * SimScale)

\* efficiency_index * (0.5 + 0.5 * confidence_score), then max(0, min(1, .))
EfficiencyIndex(k, max_volume, max_cpc) ==
    Max(0, Min(SimScale,
        MulRoundDiv(WeightedScore(k, max_volume, max_cpc),
                    SimScale + k.confidence_score, 2 * SimScale)))

\* a scorer that adds the new index to the one already stored
calculate_composite_metrics_accumulating(kws) ==
    IF kws = <<>> THEN <<>>
    ELSE [i \in DOMAIN kws |->
            [kws[i] EXCEPT !.efficiency_index =
                Min(SimScale, @ + EfficiencyIndex(kws[i], MaxOr1(kws, "search_volume"),
                                                  MaxOr1(kws, "cpc")))]]

\* the list with efficiency_index set on every keyword, in place
calculate_composite_metrics(kws) ==
    IF kws = <<>> THEN <<>>
    ELSE [i \in DOMAIN kws |->
            [kws[i] EXCEPT !.efficiency_index =
                EfficiencyIndex(kws[i], MaxOr1(kws, "search_volume"),
                                MaxOr1(kws, "cpc"))]]

\* scored = self._calculate_composite_metrics(enriched)
CalculateCompositeMetrics ==
    /\ pc = "enriched"
    /\ variants' = calculate_composite_metrics(variants)
    /\ pc' = "scored"
    /\ UNCHANGED <<kb_vars, index_vars, call_vars, batch, prev_variants, ranked>>

\* _calculate_composite_metrics called again on the list it has scored
RescoreScored ==
    /\ pc = "scored"
    /\ prev_variants' = variants
    /\ variants' = calculate_composite_metrics(variants)
    /\ pc' = "rescored"
    /\ UNCHANGED <<kb_vars, index_vars, call_vars, batch, ranked>>

(* ------------ _calculate_composite_metrics over bounded batches --------- *)
Variant(kw, sv, c, kd, comp, conf) ==
    KeywordVariant(kw, "generated",
                   [search_volume |-> sv, cpc |-> c, keyword_difficulty |-> kd,
                    competition |-> comp, confidence |-> conf], <<>>)

\* the variants a batch is drawn from: a verbatim and a weighted estimate,
\* the all-zero estimate, and two verbatim copies of malformed rows (negative
\* volume, cpc and competition, a difficulty above 100)
VariantPool ==
    { Variant(K_running_shoes, 10000, 15000, 4000, 6000, 10000),
      Variant(K_nike_running_shoes, 4480, 16200, 4500, 7000, 7600),
      Variant(K_zzz, 0, 0, 0, 0, 0),
      Variant(K_how_to_run, 1200, 20000, 3500, 4000, 6200),
      Variant(K_shoes, 0 - 300, 0 - 2000, 12000, 3000, 10000),
      Variant(K_run, 0 - 600, 0 - 1000, 2000, 0 - 15000, 10000) }

\* the lists of at most n elements of S
RECURSIVE SeqsUpTo(_, _)
SeqsUpTo(S, n) ==
    IF n = 0 THEN { <<>> }
    ELSE SeqsUpTo(S, n - 1) \cup
         { Append(l, x) : l \in { y \in SeqsUpTo(S, n - 1) : Len(y) = n - 1 },
                          x \in S }

InitComp ==
    /\ IndexOf(<<RowPool[1]>>)
    /\ pc = "enriched"
    /\ keyword = <<>>
    /\ top_n = 0
    /\ similar_keywords = <<>>
    /\ metrics = NoMetrics
    /\ base_keywords = <<>>
    /\ base_metrics = NoMetrics
    /\ variants \in SeqsUpTo(VariantPool, MaxBatch)
    /\ batch = [i \in DOMAIN variants |-> variants[i].keyword]
    /\ prev_variants = <<>>
    /\ ranked = <<>>
    /\ NoKB

NextComp ==
    \/ CalculateCompositeMetrics
    \/ RescoreScored

SpecComp == InitComp /\ [][NextComp]_vars

(* --------------------------- _rank_and_prioritize ----------------------- *)
\* short_tail[:5], medium_tail[:8], long_tail[:5], question_based[:3]
ShortQuota == 5
MediumQuota == 8
LongQuota == 5
QuestionQuota == 3

\* x put into a list sorted by efficiency_index descending, behind the
\* elements that are not smaller: list.sort is stable, with reverse=True too
InsertSorted(sorted, x) ==
    LET n == Cardinality({ i \in DOMAIN sorted :
                             sorted[i].efficiency_index >= x.efficiency_index })
    IN  SubSeq(sorted, 1, n) \o <<x>> \o SubSeq(sorted, n + 1, Len(sorted))

\* kws.sort(key=lambda k: k.efficiency_index, reverse=True)
RECURSIVE SortFrom(_, _, _)
SortFrom(kws, i, acc) ==
    IF i > Len(kws) THEN acc ELSE SortFrom(kws, i + 1, InsertSorted(acc, kws[i]))

SortDescending(kws) == SortFrom(kws, 1, <<>>)

\* the segment a keyword is appended to: the question test is the substring
\* test `q in kw.keyword.lower()`, the length test is on len(keyword.split())
Segment(kw) ==
    IF IsQuestion(kw) THEN "question_based"
    ELSE IF Len(Split(kw)) <= 2 THEN "short_tail"
    ELSE IF Len(Split(kw)) <= 4 THEN "medium_tail"
    ELSE "long_tail"

\* seg[:n]
Take(seg, n) == SubSeq(seg, 1, Min(n, Len(seg)))

\* diverse_top, sorted: the heads of the four segments
DiverseTop(ranked_keywords) ==
    LET seg(name) == SelectSeq(ranked_keywords, LAMBDA k : Segment(k.keyword) = name)
    IN  SortDescending(Take(SortDescending(seg("short_tail")), ShortQuota)
                         \o Take(SortDescending(seg("medium_tail")), MediumQuota)
                         \o Take(SortDescending(seg("long_tail")), LongQuota)
                         \o Take(SortDescending(seg("question_based")), QuestionQuota))

\* [k for k in ranked_keywords if k not in diverse_top]: `in` compares the
\* models by value, as BaseModel.__eq__ does
Remaining(ranked_keywords, diverse_top) ==
    SelectSeq(ranked_keywords,
              LAMBDA k : \A i \in DOMAIN diverse_top : diverse_top[i] # k)

\* final_ranked = diverse_top + remaining
rank_and_prioritize(kws) ==
    IF kws = <<>> THEN <<>>
    ELSE LET ranked_keywords == SortDescending(kws)
             diverse_top == DiverseTop(ranked_keywords)
         IN  diverse_top \o Remaining(ranked_keywords, diverse_top)

\* ranked = self._rank_and_prioritize(scored)
RankAndPrioritize ==
    /\ pc = "scored"
    /\ ranked' = rank_and_prioritize(variants)
    /\ pc' = "ranked"
    /\ UNCHANGED <<kb_vars, index_vars, call_vars, batch, variants, prev_variants>>

(* ------------- _rank_and_prioritize over bounded scored batches --------- *)
\* one-letter words that tell the keywords of a segment apart
Letters == <<"a", "b", "c", "d", "e", "f", "g", "i", "j", "k", "l", "m">>
Tag(i) == <<Letters[i]>>

\* keyword number i of two, three and five words, and a question
ShortKeyword(i) == W_run \o SP \o Tag(i)
MediumKeyword(i) == W_run \o SP \o W_to \o SP \o Tag(i)
LongKeyword(i) ==
    W_best \o SP \o W_run \o SP \o W_for \o SP \o W_marathon \o SP \o Tag(i)
QuestionKeyword(i) == W_how \o SP \o W_to \o SP \o Tag(i)

\* a scored variant
ScoredVariant(kw, efficiency) ==
    [Variant(kw, 0, 0, 0, 0, 0) EXCEPT !.efficiency_index = efficiency]

\* the efficiency of the best keyword of the short, medium, long and
\* question keywords of a batch, in 1/SimScale
Profiles ==
    { <<9000, 9050, 9020, 9070>>,
      <<9000, 8950, 3000, 2000>>,
      <<3000, 2000, 9000, 8000>>,
      <<5000, 5000, 5000, 5000>>,
      <<1000, 9000, 500, 9500>>,
      <<9000, 9050, 9020, 1000>> }

\* the difference in efficiency of two successive keywords of one kind
EfficiencyStep == 50

\* keyword number i of a kind
KeywordOf(kind, i) ==
    CASE kind = "short" -> ShortKeyword(i)
      [] kind = "medium" -> MediumKeyword(i)
      [] kind = "long" -> LongKeyword(i)
      [] kind = "question" -> QuestionKeyword(i)

\* n keywords of one kind, the best last
KeywordsOfKind(n, top, kind) ==
    [i \in 1..n |->
        ScoredVariant(KeywordOf(kind, n + 1 - i), top - EfficiencyStep * (n - i))]

\* the sizes a kind of keywords has in a batch: none, fewer than any quota,
\* the quota of its segment, and up to MaxExtra more
Sizes(quota) == {0, 2} \cup (quota..(quota + MaxExtra))

\* a two-word keyword with "how" inside a word; a batch holds it not at
\* all, once, or twice as two variants with equal fields
ShowShoes == ScoredVariant(K_show_shoes, 7000)

InitRank ==
    /\ IndexOf(<<RowPool[1]>>)
    /\ pc = "scored"
    /\ keyword = <<>>
    /\ top_n = 0
    /\ similar_keywords = <<>>
    /\ metrics = NoMetrics
    /\ base_keywords = <<>>
    /\ base_metrics = NoMetrics
    /\ \E p \in Profiles, ns \in Sizes(ShortQuota), nm \in Sizes(MediumQuota),
          nl \in Sizes(LongQuota), nq \in Sizes(QuestionQuota),
          extra \in { <<>>, <<ShowShoes>>, <<ShowShoes, ShowShoes>> } :
          variants = KeywordsOfKind(ns, p[1], "short")
                       \o KeywordsOfKind(nm, p[2], "medium")
                       \o extra
                       \o KeywordsOfKind(nl, p[3], "long")
                       \o KeywordsOfKind(nq, p[4], "question")
    /\ batch = [i \in DOMAIN variants |-> variants[i].keyword]
    /\ prev_variants = <<>>
    /\ ranked = <<>>
    /\ NoKB

NextRank == RankAndPrioritize

SpecRank == InitRank /\ [][NextRank]_vars

(* ------------------------- the pipeline of a batch ---------------------- *)
\* top_n of _find_similar_keywords when the caller gives none
DefaultTopN == 5

\* the constructor that fits whatever the table returns
NeverRaises(rows) == FALSE

\* fit_transform raises ValueError (empty vocabulary) when no document
\* gives a term
RaisesOnFit(rows) ==
    \/ DOMAIN FitIdf([d \in DOMAIN rows |-> CharCounts(rows[d].keyword)]) = {}
    \/ DOMAIN FitIdf([d \in DOMAIN rows |-> WordCounts(rows[d].keyword)]) = {}

\* the variant _enrich_keywords builds for one keyword
EnrichedVariant(kw, source) ==
    LET sk == find_similar_keywords(kw, DefaultTopN)
    IN  KeywordVariant(kw, source, estimate_metrics(kw, sk), sk)

\* KeywordVariant(...) raises ValidationError for a metric that is None
FailsValidation(v) ==
    \/ v.search_volume = None
    \/ v.cpc = None
    \/ v.keyword_difficulty = None
    \/ v.competition_percentage = None

\* the list returned by _enrich_keywords: one variant per keyword, or [] from
\* the except branch when a variant cannot be built
enrich_keywords(kws, source) ==
    LET enriched == [i \in DOMAIN kws |-> EnrichedVariant(kws[i], source)]
    IN  IF \E i \in DOMAIN enriched : FailsValidation(enriched[i]) THEN <<>>
        ELSE enriched

\* the corpora of the pipeline: the empty table, the example row, a table with
\* a null cpc, and a table with a malformed row
PipeCorpora ==
    { <<>>,
      <<RowPool[1]>>,
      <<RowPool[1], NullRow>>,
      <<RowPool[2], RowPool[5]>> }

PipeKeywords ==
    { K_how_to_run, K_how_to_run_nike_shoes, K_shoes,
      K_best_running_shoes_for_marathon }

\* before KeywordVariantGenerator() is called
InitPipe ==
    /\ pc = "new"
    /\ semrush_keywords = <<>>
    /\ keyword_data_map = <<>>
    /\ char_idf = <<>>
    /\ char_vectors = <<>>
    /\ word_idf = <<>>
    /\ word_vectors = <<>>
    /\ keyword = <<>>
    /\ top_n = 0
    /\ similar_keywords = <<>>
    /\ metrics = NoMetrics
    /\ base_keywords = <<>>
    /\ base_metrics = NoMetrics
    /\ NoBatch
    /\ NoKB

\* KeywordVariantGenerator(): _initialize_keyword_similarity reads the table
\* and fits both vectorizers; an exception is logged and raised again, there
\* and in __init__, and the caller gets no generator
Construct(rows) ==
    /\ pc = "new"
    /\ semrush_keywords' = rows
    /\ keyword_data_map' = KeywordDataMap(rows)
    /\ IF RaisesOnFit(rows)
         THEN /\ pc' = "raised"
              /\ UNCHANGED <<char_idf, char_vectors, word_idf, word_vectors>>
         ELSE /\ pc' = "ready"
              /\ char_idf' = FitIdf([d \in DOMAIN rows |-> CharCounts(rows[d].keyword)])
              /\ char_vectors' =
                    FitTransform([d \in DOMAIN rows |-> CharCounts(rows[d].keyword)])
              /\ word_idf' = FitIdf([d \in DOMAIN rows |-> WordCounts(rows[d].keyword)])
              /\ word_vectors' =
                    FitTransform([d \in DOMAIN rows |-> WordCounts(rows[d].keyword)])
    /\ UNCHANGED <<kb_vars, call_vars, batch_vars>>

\* enriched = await self._enrich_keywords(keywords, source="generated")
EnrichKeywords(kws) ==
    /\ pc = "ready"
    /\ batch' = kws
    /\ variants' = enrich_keywords(kws, "generated")
    /\ pc' = "enriched"
    /\ UNCHANGED <<kb_vars, index_vars, call_vars, prev_variants, ranked>>

\* the same keywords enriched and scored once more by the same generator
RerunPipeline ==
    /\ pc = "scored"
    /\ prev_variants' = variants
    /\ variants' = calculate_composite_metrics(enrich_keywords(batch, "generated"))
    /\ pc' = "rerun"
    /\ UNCHANGED <<kb_vars, index_vars, call_vars, batch, ranked>>

NextPipe ==
    \/ \E rows \in PipeCorpora : Construct(rows)
    \/ \E kws \in SeqsUpTo(PipeKeywords, MaxBatch) : EnrichKeywords(kws)
    \/ CalculateCompositeMetrics
    \/ RescoreScored
    \/ RerunPipeline
    \/ RankAndPrioritize

SpecPipe == InitPipe /\ [][NextPipe]_vars

(* ------------- the operations of a generator, in any order -------------- *)
IdxCorpora == { <<RowPool[1]>>, <<RowPool[2], RowPool[5]>> }
IdxKeywords == { K_shoes, K_best_running_shoes_for_marathon }

\* a finder that remembers the keyword it was asked for
CallFindCaching(kw) ==
    /\ pc = "ready"
    /\ keyword' = kw
    /\ top_n' = DefaultTopN
    /\ similar_keywords' = find_similar_keywords(kw, DefaultTopN)
    /\ keyword_data_map' =
          IF similar_keywords' = <<>> \/ Lower(kw) \in DOMAIN keyword_data_map
            THEN keyword_data_map
            ELSE [k \in DOMAIN keyword_data_map \cup {Lower(kw)} |->
                    IF k \in DOMAIN keyword_data_map THEN keyword_data_map[k]
                    ELSE semrush_keywords[1]]
    /\ UNCHANGED <<kb_vars, semrush_keywords, char_idf, char_vectors, word_idf, word_vectors,
                   pc, metrics, base_keywords, base_metrics, batch_vars>>

\* self._find_similar_keywords(keyword)
CallFind(kw) ==
    /\ pc = "ready"
    /\ keyword' = kw
    /\ top_n' = DefaultTopN
    /\ similar_keywords' = find_similar_keywords(kw, DefaultTopN)
    /\ UNCHANGED <<kb_vars, index_vars, pc, metrics, base_keywords, base_metrics, batch_vars>>

\* self._estimate_metrics(keyword, similar_keywords)
CallEstimate ==
    /\ pc = "ready"
    /\ metrics' = estimate_metrics(keyword, similar_keywords)
    /\ UNCHANGED <<kb_vars, index_vars, pc, keyword, top_n, similar_keywords, base_keywords,
                   base_metrics, batch_vars>>

\* self._enrich_keywords(keywords)
CallEnrich(kws) ==
    /\ pc = "ready"
    /\ batch' = kws
    /\ variants' = enrich_keywords(kws, "generated")
    /\ UNCHANGED <<kb_vars, index_vars, pc, call_vars, prev_variants, ranked>>

\* self._calculate_composite_metrics(keywords)
CallScore ==
    /\ pc = "ready"
    /\ variants' = calculate_composite_metrics(variants)
    /\ UNCHANGED <<kb_vars, index_vars, pc, call_vars, batch, prev_variants, ranked>>

\* self._rank_and_prioritize(keywords)
CallRank ==
    /\ pc = "ready"
    /\ ranked' = rank_and_prioritize(variants)
    /\ UNCHANGED <<kb_vars, index_vars, pc, call_vars, batch, variants, prev_variants>>

NextIdx ==
    \/ \E rows \in IdxCorpora : Construct(rows)
    \/ \E kw \in IdxKeywords : CallFind(kw)
    \/ CallEstimate
    \/ \E kws \in SeqsUpTo(IdxKeywords, MaxCalls) : CallEnrich(kws)
    \/ CallScore
    \/ CallRank

SpecIdx == InitPipe /\ [][NextIdx]_vars

(* ------------------------ generate_keyword_variants --------------------- *)
GenKeywords == { K_shoes, K_best_running_shoes_for_marathon, K_how_to_run }

\* the keywords of the retrieved content items, one list after the other: a
\* keyword of several items is there several times
RetrievedLists == SeqsUpTo(GenKeywords, MaxRetrieved)

\* the keywords of _generate_keyword_variants, which are unique
GeneratedLists ==
    { l \in SeqsUpTo(GenKeywords, MaxRetrieved) :
        \A i, j \in DOMAIN l : l[i] = l[j] => i = j }

\* await generator.generate_keyword_variants(ad_features), steps 4 to 7:
\* both lists are enriched, each with its source, the concatenation is scored
\* and the scored list ranked; list(set(retrieved + generated)) of step 3 is
\* logged and not used, and the explanations of step 6 change no field of the
\* model
GenerateKeywordVariants(retrieved, generated) ==
    /\ pc = "ready"
    /\ batch' = retrieved \o generated
    /\ \E enriched \in { enrich_keywords(retrieved, "retrieved")
                            \o enrich_keywords(generated, "generated") } :
          variants' = calculate_composite_metrics(enriched)
    /\ ranked' = rank_and_prioritize(variants')
    /\ pc' = "generated"
    /\ UNCHANGED <<kb_vars, index_vars, call_vars, prev_variants>>

NextGen ==
    \/ \E rows \in IdxCorpora : Construct(rows)
    \/ \E retrieved \in RetrievedLists, generated \in GeneratedLists :
          GenerateKeywordVariants(retrieved, generated)

SpecGen == InitPipe /\ [][NextGen]_vars

(* ------------------- the query cache of KnowledgeBase ------------------- *)
\* @lru_cache(maxsize=100)
LruMaxSize == 100
\* self.cache_expiry = 3600
CacheExpiry == 3600
\* the cache key whose calls are followed; the other keys are 1, 2, ...
TrackedKey == 0

\* a result is written as the time at which the retriever returned it

\* the body of _get_cached_query_result: the stored result if there is one
\* that has not expired, else None
StoredResult(k) ==
    IF k \in DOMAIN query_cache /\ now - query_cache[k].timestamp < CacheExpiry
      THEN query_cache[k].result
      ELSE None

\* query_cache after the body: an expired entry of the key is deleted
AfterBody(k) ==
    IF k \in DOMAIN query_cache /\ now - query_cache[k].timestamp >= CacheExpiry
      THEN [x \in (DOMAIN query_cache) \ {k} |-> query_cache[x]]
      ELSE query_cache

\* the wrapper holds a value for the key
LruHit(k) == \E i \in DOMAIN lru : lru[i].key = k

\* what the decorated _get_cached_query_result returns: the value the wrapper
\* holds for the key, else the value of the body
CachedResult(k) ==
    IF LruHit(k) THEN lru[CHOOSE i \in DOMAIN lru : lru[i].key = k].value
    ELSE StoredResult(k)

\* the wrapper after the call: a hit makes the entry the most recent one, a
\* miss adds the value of the body and drops the oldest entry of a full cache
LruAfter(k) ==
    IF LruHit(k)
      THEN SelectSeq(lru, LAMBDA en : en.key # k)
             \o SelectSeq(lru, LAMBDA en : en.key = k)
      ELSE LET l == Append(lru, [key |-> k, value |-> StoredResult(k)])
           IN  IF Len(l) > LruMaxSize THEN Tail(l) ELSE l

\* self._get_cached_query_result(key)
Lookup(k) ==
    /\ returned' = CachedResult(k)
    /\ lru' = LruAfter(k)
    /\ query_cache' = IF LruHit(k) THEN query_cache ELSE AfterBody(k)
    /\ queried' = FALSE
    /\ cache_call' = [op |-> "lookup", key |-> k, stored_before |-> StoredResult(k)]

\* _get_cached_query_result called with the tracked key
LookupTracked ==
    /\ Lookup(TrackedKey)
    /\ UNCHANGED <<not_cache_vars, now, fresh_keys>>

\* _get_cached_query_result called with a key not used before
LookupFresh ==
    /\ fresh_keys < MaxFresh
    /\ Lookup(fresh_keys + 1)
    /\ fresh_keys' = fresh_keys + 1
    /\ UNCHANGED <<not_cache_vars, now>>

\* _fast_retrieval(query, top_k, types) for the tracked key: the cached
\* result if the lookup gives one (`if cached_result:`, the results here
\* being non-empty lists), else the retriever is queried and its
\* result stored with time.time()
FastRetrieval ==
    /\ lru' = LruAfter(TrackedKey)
    /\ cache_call' = [op |-> "fast_retrieval", key |-> TrackedKey,
                      stored_before |-> StoredResult(TrackedKey)]
    /\ IF CachedResult(TrackedKey) # None
         THEN /\ returned' = CachedResult(TrackedKey)
              /\ queried' = FALSE
              /\ query_cache' = IF LruHit(TrackedKey) THEN query_cache
                                ELSE AfterBody(TrackedKey)
         ELSE /\ returned' = now
              /\ queried' = TRUE
              /\ query_cache' =
                    [x \in (DOMAIN query_cache) \cup {TrackedKey} |->
                        IF x = TrackedKey THEN [result |-> now, timestamp |-> now]
                        ELSE query_cache[x]]
    /\ UNCHANGED <<not_cache_vars, now, fresh_keys>>

\* no call in progress or just returned
NoCall == [op |-> "none", key |-> 0, stored_before |-> None]

\* cache_expiry seconds pass between two calls
Advance ==
    /\ now < MaxClock
    /\ now' = now + CacheExpiry
    /\ cache_call' = NoCall
    /\ returned' = None
    /\ queried' = FALSE
    /\ UNCHANGED <<not_cache_vars, query_cache, lru, fresh_keys>>

InitCache == InitPipe

NextCache ==
    \/ LookupTracked
    \/ LookupFresh
    \/ FastRetrieval
    \/ Advance

SpecCache == InitCache /\ [][NextCache]_vars

(* ------------------------ the streaming bridge -------------------------- *)
\* event_generator pulls the lines of stream_query one at a time with
\* next(stream_gen), run in the executor, and yields them to the client.

\* the number of text pieces stream_query has yielded
TextCount == Len(SelectSeq(produced, LAMBDA l : l.kind = "chunk"))

\* what the LLM stream does when it is pulled: a chunk with text, its end, or
\* an exception; the set-up of stream_query before its try can raise as well
UpstreamOutcomes == {"setup_error", "text", "end", "error"}

\* the choices open to stream_query where it is suspended: chunks without
\* text are skipped without a yield, and outside the loop there is no choice
Applies(empties, outcome) ==
    IF sq_pc \in {"start", "loop"}
      THEN /\ outcome \in UpstreamOutcomes
           /\ outcome = "setup_error" => (sq_pc = "start" /\ empties = 0)
      ELSE empties = 0 /\ outcome = "resume"

\* next(stream_gen): stream_query runs from where it is suspended to its next
\* yield, its return or its exception
StreamQueryNext(empties, outcome) ==
    CASE outcome = "setup_error" ->
           [pc |-> "raised", item |-> RaisedItem, pulls |-> 0, chunks |-> 0]
      [] outcome = "text" ->
           [pc |-> "loop", item |-> Line("stream_query", "chunk", TextCount + 1),
            pulls |-> empties + 1, chunks |-> empties + 1]
      [] outcome = "end" ->
           [pc |-> "final", item |-> Line("stream_query", "final", TextCount),
            pulls |-> empties + 1, chunks |-> empties]
      [] outcome = "error" ->
           [pc |-> "error", item |-> Line("stream_query", "error", TextCount),
            pulls |-> empties + 1, chunks |-> empties]
      [] outcome = "resume" /\ sq_pc = "final" ->
           [pc |-> "done_ok", item |-> DoneLine("stream_query"),
            pulls |-> 0, chunks |-> 0]
      [] outcome = "resume" /\ sq_pc = "error" ->
           [pc |-> "done_err", item |-> DoneLine("stream_query"),
            pulls |-> 0, chunks |-> 0]
      [] outcome = "resume" /\ sq_pc = "done_ok" ->
           [pc |-> "finished", item |-> StopItem, pulls |-> 0, chunks |-> 0]
      [] outcome = "resume" /\ sq_pc = "done_err" ->
           [pc |-> "raised", item |-> RaisedItem, pulls |-> 0, chunks |-> 0]

\* get_next_item in the executor thread; the thread runs whether or not the
\* consumer has gone away in the meantime
GetNextItem ==
    /\ pending = Submitted
    /\ \E empties \in 0..MaxChunks, outcome \in UpstreamOutcomes \cup {"resume"} :
         /\ Applies(empties, outcome)
         /\ LET r == StreamQueryNext(empties, outcome)
            IN  /\ chunk_count + r.chunks <= MaxChunks
                /\ chunk_count' = chunk_count + r.chunks
                /\ sq_pc' = r.pc
                /\ pending' = r.item
                /\ produced' = IF r.item.kind \in {"stop", "raised"} THEN produced
                               ELSE Append(produced, r.item)
                /\ late_pull' = (late_pull \/ (closed /\ r.pulls > 0))
    /\ UNCHANGED <<not_stream_vars, eg_pc, received, closed, discarded,
                   close_raised>>

\* a finally clause that yields nothing
NoFinallyItems == <<>>

\* what the finally clause of event_generator yields
FinallyItems == <<DoneLine("event_generator")>>

\* the first pull: stream_gen is made and get_next_item submitted
Start ==
    /\ eg_pc = "start"
    /\ eg_pc' = "awaiting"
    /\ pending' = Submitted
    /\ UNCHANGED <<not_stream_vars, sq_pc, chunk_count, produced, received,
                   closed, discarded, close_raised, late_pull>>

\* resumed after `yield line` within max_duration: the next pull
Resume ==
    /\ eg_pc = "line"
    /\ eg_pc' = "awaiting"
    /\ pending' = Submitted
    /\ UNCHANGED <<not_stream_vars, sq_pc, chunk_count, produced, received,
                   closed, discarded, close_raised, late_pull>>

\* resumed after `yield line` later than max_duration: the timeout message
Timeout ==
    /\ eg_pc = "line"
    /\ eg_pc' = "timeout_msg"
    /\ received' = Append(received, Line("event_generator", "timeout", 0))
    /\ UNCHANGED <<not_stream_vars, sq_pc, chunk_count, produced, pending,
                   closed, discarded, close_raised, late_pull>>

\* resumed after the timeout message: yield "data: [DONE]\n\n"
TimeoutDone ==
    /\ eg_pc = "timeout_msg"
    /\ eg_pc' = "timeout_done"
    /\ received' = Append(received, DoneLine("event_generator"))
    /\ UNCHANGED <<not_stream_vars, sq_pc, chunk_count, produced, pending,
                   closed, discarded, close_raised, late_pull>>

\* resumed after that: return, and the finally clause yields
TimeoutReturn ==
    /\ eg_pc = "timeout_done"
    /\ eg_pc' = "finally"
    /\ received' = received \o FinallyItems
    /\ UNCHANGED <<not_stream_vars, sq_pc, chunk_count, produced, pending,
                   closed, discarded, close_raised, late_pull>>

\* the executor call has ended: a line is yielded to the client; None
\* (StopIteration) and an exception of stream_query break the loop, and the
\* finally clause yields
Deliver ==
    /\ eg_pc = "awaiting"
    /\ pending \notin {NoItem, Submitted}
    /\ pending' = NoItem
    /\ IF pending.kind \in {"stop", "raised"}
         THEN /\ eg_pc' = "finally"
              /\ received' = received \o FinallyItems
         ELSE /\ eg_pc' = "line"
              /\ received' = Append(received, pending)
    /\ UNCHANGED <<not_stream_vars, sq_pc, chunk_count, produced, closed,
                   discarded, close_raised, late_pull>>

\* resumed after the yield of the finally clause: event_generator ends
Finish ==
    /\ eg_pc = "finally"
    /\ eg_pc' = "finished"
    /\ UNCHANGED <<not_stream_vars, sq_pc, chunk_count, produced, received,
                   pending, closed, discarded, close_raised, late_pull>>

\* the consumer closes the stream before stream_query is exhausted.
\* Suspended at a yield of the try block, event_generator gets GeneratorExit,
\* which `except Exception` does not catch; its finally clause yields, and
\* closing raises RuntimeError (async generator ignored GeneratorExit).
\* Waiting for the executor it gets CancelledError, not caught either: the
\* finally clause yields, and the call in the executor goes on.  Suspended at
\* the yield of the finally clause it just ends.
Close ==
    /\ ~closed
    /\ eg_pc \in {"line", "awaiting", "timeout_msg", "timeout_done", "finally"}
    /\ sq_pc \notin {"finished", "raised"}
    /\ closed' = TRUE
    /\ eg_pc' = "closed"
    /\ discarded' = IF eg_pc = "finally" THEN discarded
                    ELSE discarded \o FinallyItems
    /\ close_raised' = (eg_pc \in {"line", "timeout_msg", "timeout_done"})
    /\ UNCHANGED <<not_stream_vars, sq_pc, chunk_count, produced, received,
                   pending, late_pull>>

\* stream_gen, which event_generator never closes, is finalized after
\* event_generator has ended: suspended at a yield of its try or except
\* block, stream_query gets GeneratorExit, which `except Exception` does not
\* catch, and its finally clause yields; suspended at the yield of the
\* finally clause, or not started, it just ends
Finalize ==
    /\ eg_pc \in {"closed", "finished"}
    /\ pending # Submitted
    /\ sq_pc \in {"start", "loop", "final", "error", "done_ok", "done_err"}
    /\ sq_pc' = "finalized"
    /\ discarded' = IF sq_pc \in {"loop", "final", "error"}
                      THEN Append(discarded, DoneLine("stream_query"))
                      ELSE discarded
    /\ UNCHANGED <<not_stream_vars, eg_pc, chunk_count, produced, received,
                   pending, closed, close_raised, late_pull>>

InitStream == InitPipe

NextStream ==
    \/ Start
    \/ GetNextItem
    \/ Deliver
    \/ Resume
    \/ Timeout
    \/ TimeoutDone
    \/ TimeoutReturn
    \/ Finish
    \/ Close
    \/ Finalize

SpecStream == InitStream /\ [][NextStream]_vars

(* --------------------------- KnowledgeBase.query ------------------------ *)
attribution_keywords == <<
    <<"a","t","t","r","i","b","u","t","i","o","n">>,
    <<"c","a","m","p","a","i","g","n"," ","p","e","r","f","o","r","m","a","n","c","e">>,
    <<"c","h","a","n","n","e","l"," ","p","e","r","f","o","r","m","a","n","c","e">>,
    <<"r","o","a","s">>,
    <<"r","o","i">>,
    <<"c","o","n","v","e","r","s","i","o","n"," ","r","a","t","e">>,
    <<"c","t","r">>,
    <<"c","p","c">>,
    <<"c","p","m">>,
    <<"w","h","i","c","h"," ","c","a","m","p","a","i","g","n","s">>,
    <<"w","h","i","c","h"," ","c","h","a","n","n","e","l","s">>,
    <<"b","e","s","t"," ","p","e","r","f","o","r","m","i","n","g">>,
    <<"c","a","m","p","a","i","g","n"," ","m","e","t","r","i","c","s">>,
    <<"m","a","r","k","e","t","i","n","g"," ","p","e","r","f","o","r","m","a","n","c","e">>,
    <<"a","d"," ","s","p","e","n","d">>,
    <<"v","i","s","u","a","l"," ","f","e","a","t","u","r","e","s">>,
    <<"f","e","a","t","u","r","e"," ","p","e","r","f","o","r","m","a","n","c","e">>,
    <<"v","i","s","u","a","l"," ","e","l","e","m","e","n","t","s">>,
    <<"b","e","s","t"," ","c","a","t","e","g","o","r","i","e","s">>,
    <<"t","o","p"," ","l","o","c","a","t","i","o","n","s">> >>

\* any(keyword in query.lower() for keyword in attribution_keywords)
has_attribution_terms(query) ==
    \E i \in DOMAIN attribution_keywords :
        Contains(Lower(query), attribution_keywords[i])

\* "sonar-pro" if detail_level < 50, else "sonar-reasoning-pro"
ModelFor(detail_level) ==
    IF detail_level < 50 THEN "sonar-pro" ELSE "sonar-reasoning-pro"

\* the keys of the dictionary query returns
ResultKeys == {"response", "sources", "citations", "attribution_data", "metadata"}

\* whether query calls get_attribution_data and _fast_query_engine
RunsEngine(req) == req.attribution_analysis \/ has_attribution_terms(req.query)

\* how query ends: with the engine run and the LLM answering it returns the
\* dictionary (get_attribution_data returns an AttributionData, which is
\* true); an exception of the LLM call leaves it; without the engine run
\* `result["response"]` reads a local variable that was never assigned
QueryOutcome(req) ==
    IF RunsEngine(req)
      THEN IF req.llm = "ok"
             THEN [kind |-> "returned", error |-> "", keys |-> ResultKeys]
             ELSE [kind |-> "raised", error |-> "Exception", keys |-> {}]
      ELSE [kind |-> "raised", error |-> "UnboundLocalError", keys |-> {}]

Q_ROAS == <<"R","O","A","S">>
Q_heroic == <<"h","e","r","o","i","c">>
Q_ad_spend == <<"a","d"," ","s","p","e","n","d">>
Queries == {K_shoes, K_how_to_run, K_best_running_shoes_for_marathon,
            Q_ROAS, Q_heroic, Q_ad_spend}
DetailLevels == {10, 50, 90}

\* await kb.query(query, deep_research, detail_level, attribution_analysis)
\* for the request req; status is the HTTP status of the caller
RunQuery(req, status) ==
    /\ q_request' = req
    /\ q_outcome' = QueryOutcome(req)
    /\ q_status' = status
    /\ llm_model' = IF RunsEngine(req) THEN ModelFor(req.detail_level)
                    ELSE llm_model
    /\ last_citations' = IF RunsEngine(req)
                           THEN (IF req.llm = "ok" THEN 1 ELSE 0)
                           ELSE last_citations
    /\ UNCHANGED not_query_vars

\* a direct call of KnowledgeBase.query
KbQuery ==
    \E query \in Queries, deep_research \in BOOLEAN, d \in DetailLevels,
       attribution_analysis \in BOOLEAN, llm \in {"ok", "raises"} :
        RunQuery([query |-> query, deep_research |-> deep_research,
                  detail_level |-> d,
                  attribution_analysis |-> attribution_analysis, llm |-> llm],
                 0)

\* POST /knowledge/query: query is called without attribution_analysis, and
\* an exception becomes the HTTP status 500
QueryEndpoint ==
    \E query \in Queries, deep_research \in BOOLEAN, d \in DetailLevels,
       llm \in {"ok", "raises"} :
        LET req == [query |-> query, deep_research |-> deep_research,
                    detail_level |-> d, attribution_analysis |-> FALSE,
                    llm |-> llm]
        IN  RunQuery(req, IF QueryOutcome(req).kind = "returned" THEN 200
                          ELSE 500)

InitQuery == InitPipe

NextQuery ==
    \/ KbQuery
    \/ QueryEndpoint

SpecQuery == InitQuery /\ [][NextQuery]_vars

(* ------------- two requests sharing the PerplexityLLM instance ---------- *)
\* A query request runs on the event loop without awaiting anything; the
\* next(stream_gen) of a stream request runs in a thread of the executor.
Kinds == {"stream", "query"}

\* the request is a query that holds the event loop
QueryRunning(o) ==
    requests[o].kind = "query" /\ requests[o].pc \in {"call", "store", "read"}

\* a request arrives
Arrive(r) ==
    /\ requests[r].pc = "idle"
    /\ \E kind \in Kinds, d \in DetailLevels :
         requests' = [requests EXCEPT ![r] =
                         [kind |-> kind, detail_level |-> d, pc |-> "arrived",
                          used_model |-> "", reported |-> 0]]
    /\ UNCHANGED <<not_llm_vars, llm_vars>>

\* the request starts when the event loop is free, and sets
\* self.perplexity_llm.model from its detail_level
SetModel(r) ==
    /\ requests[r].pc = "arrived"
    /\ \A o \in (1..2) \ {r} : ~QueryRunning(o)
    /\ llm_model' = ModelFor(requests[r].detail_level)
    /\ requests' = [requests EXCEPT ![r].pc =
                       IF requests[r].kind = "stream" THEN "reset" ELSE "call"]
    /\ UNCHANGED <<not_llm_vars, last_citations>>

\* stream_query: self.perplexity_llm.last_citations = []
ResetCitations(r) ==
    /\ requests[r].pc = "reset"
    /\ last_citations' = 0
    /\ requests' = [requests EXCEPT ![r].pc = "call"]
    /\ UNCHANGED <<not_llm_vars, llm_model>>

\* complete / stream_complete builds its payload: "model": self.model
CallLLM(r) ==
    /\ requests[r].pc = "call"
    /\ requests' = [requests EXCEPT ![r].used_model = llm_model,
                                    ![r].pc = "store"]
    /\ UNCHANGED <<not_llm_vars, llm_vars>>

\* complete / stream_complete stores the citations of its answer
StoreCitations(r) ==
    /\ requests[r].pc = "store"
    /\ last_citations' = r
    /\ requests' = [requests EXCEPT ![r].pc = "read"]
    /\ UNCHANGED <<not_llm_vars, llm_model>>

\* the request takes self.perplexity_llm.last_citations for its answer
ReadCitations(r) ==
    /\ requests[r].pc = "read"
    /\ requests' = [requests EXCEPT ![r].reported = last_citations,
                                    ![r].pc = "done"]
    /\ UNCHANGED <<not_llm_vars, llm_vars>>

InitConc == InitPipe

NextConc ==
    \E r \in 1..2 :
        \/ Arrive(r)
        \/ SetModel(r)
        \/ ResetCitations(r)
        \/ CallLLM(r)
        \/ StoreCitations(r)
        \/ ReadCitations(r)

SpecConc == InitConc /\ [][NextConc]_vars

(* ============================== claims ================================== *)
\* a call of _find_similar_keywords has returned
Found == pc \in {"found", "estimated"}
\* a call of _estimate_metrics has returned
Estimated == pc \in {"estimated", "extended"}

\* the rows whose keyword equals the input keyword case-insensitively
SameKeywordRows ==
    { i \in DOMAIN semrush_keywords :
        Lower(semrush_keywords[i].keyword) = Lower(keyword) }

\* C1 (as claimed): a keyword that equals a corpus keyword case-insensitively,
\* in whatever case the corpus stores it, gets exactly one match, of
\* similarity 1.0 and with the metrics of that corpus row.
C1_ExactMatchAnyCase ==
    (Found /\ SameKeywordRows # {}) =>
        /\ Len(similar_keywords) = 1
        /\ similar_keywords[1].similarity >= SimScale - SimRounding
        /\ \E i \in SameKeywordRows :
              similar_keywords[1].metrics = MetricsOf(semrush_keywords[i])

\* C2: every returned match has 0.3 < similarity <= 1.0.
C2_SimilarityBound ==
    Found => \A p \in DOMAIN similar_keywords :
                /\ 10 * similar_keywords[p].similarity > 3 * SimScale
                /\ similar_keywords[p].similarity <= SimScale

\* a match found by vector similarity, below 1.0, was returned
C2_Witness ==
    /\ Found
    /\ Lower(keyword) \notin DOMAIN keyword_data_map
    /\ \E p \in DOMAIN similar_keywords :
          similar_keywords[p].similarity < SimScale - SimRounding
    /\ \E i \in DOMAIN semrush_keywords :
          CombinedSimilarities(keyword)[i] <= SimThreshold

\* the rows whose keyword is among the returned matches
ReturnedRows ==
    { i \in DOMAIN semrush_keywords :
        \E p \in DOMAIN similar_keywords :
            similar_keywords[p].keyword = semrush_keywords[i].keyword }

\* C3: without an exact match, at most top_n matches are returned, in order
\* of non-increasing combined similarity 0.4 * char + 0.6 * word, and a row
\* left out is no more similar than every returned one, or at most 0.3.
C3_TopNOrdered ==
    (Found /\ Lower(keyword) \notin DOMAIN keyword_data_map) =>
        LET combined == CombinedSimilarities(keyword)
        IN  /\ Len(similar_keywords) <= top_n
            /\ \A p \in DOMAIN similar_keywords :
                  \E i \in DOMAIN semrush_keywords :
                      /\ similar_keywords[p].keyword = semrush_keywords[i].keyword
                      /\ similar_keywords[p].similarity = combined[i]
            /\ \A p, q \in DOMAIN similar_keywords :
                  p < q => similar_keywords[p].similarity >= similar_keywords[q].similarity
            /\ \A i \in (DOMAIN semrush_keywords) \ ReturnedRows :
                  \/ 10 * combined[i] <= 3 * SimScale
                  \/ \A p \in DOMAIN similar_keywords :
                        combined[i] <= similar_keywords[p].similarity

\* top_n cut the list: a row above the threshold was left out
C3_Witness ==
    /\ Found
    /\ Lower(keyword) \notin DOMAIN keyword_data_map
    /\ Len(similar_keywords) = top_n
    /\ \E i \in (DOMAIN semrush_keywords) \ ReturnedRows :
          CombinedSimilarities(keyword)[i] > SimThreshold

\* C4 (as claimed): for an empty match list the estimate is the non-zero
\* default tuple: volume 100, cpc 1.0, difficulty 50, competition 0.5,
\* confidence between 0.2 and 0.3.
C4_NonZeroDefault ==
    (Estimated /\ similar_keywords = <<>>) =>
        /\ metrics.search_volume = 100
        /\ metrics.cpc = 100 * Prec
        /\ metrics.keyword_difficulty = 50 * Prec
        /\ metrics.competition = 50 * Prec
        /\ 10 * metrics.confidence >= 2 * SimScale
        /\ 10 * metrics.confidence <= 3 * SimScale

\* C5 (as claimed): every estimate has volume >= 0, cpc >= 0, difficulty in
\* [0, 100], competition in [0, 1] and confidence in [0, 1].
C5_EstimateInRange ==
    Estimated =>
        /\ metrics.search_volume >= 0
        /\ metrics.cpc >= 0
        /\ metrics.keyword_difficulty >= 0
        /\ metrics.keyword_difficulty <= 100 * Prec
        /\ metrics.competition >= 0
        /\ metrics.competition <= 100 * Prec
        /\ metrics.confidence >= 0
        /\ metrics.confidence <= SimScale

(* ------------------ the estimate, restated from the claims -------------- *)
\* sum over the matches of field * similarity (field = "" for the similarity)
RECURSIVE SimilaritySum(_, _)
SimilaritySum(sk, field) ==
    IF sk = <<>> THEN 0
    ELSE LET m == sk[Len(sk)]
         IN  SimilaritySum(SubSeq(sk, 1, Len(sk) - 1), field)
               + (IF field = "" THEN m.similarity
                                ELSE m.metrics[field] * m.similarity)

\* v is within tol of the quotient num / den, for den > 0
Near(v, num, den, tol) == (v - tol) * den <= num /\ num <= (v + tol) * den

\* v is within one unit of the quotient num / den clamped to [0, cap]
ClampedQuotientIs(v, num, den, cap) ==
    IF num < 0 THEN v = 0
    ELSE IF num >= cap * den THEN v = cap
    ELSE v >= 0 /\ v <= cap /\ Near(v, num, den, 1)

\* the number of words of kw
WordCount(kw) ==
    Cardinality({ i \in DOMAIN kw : kw[i] # " " /\ (i = 1 \/ kw[i - 1] = " ") })

LongTail == WordCount(keyword) > 3
Question == \E q \in QuestionWords : Contains(Lower(keyword), q)
Brand == Contains(Lower(keyword), W_nike)

NoNearExact == \A i \in DOMAIN similar_keywords : 100 * similar_keywords[i].similarity <= 99 * SimScale

\* the weighted-estimate path was taken
WeightedPath ==
    /\ Estimated
    /\ similar_keywords # <<>>
    /\ NoNearExact
    /\ SimilaritySum(similar_keywords, "") > 0

\* the returned metrics are the similarity-weighted means, clamped: the
\* volume within one unit (it is cut to an integer), the others within one
\* unit of 1/Prec
MetricsAreWeightedMeans ==
    LET total == SimilaritySum(similar_keywords, "")
        vsum == SimilaritySum(similar_keywords, "search_volume")
        csum == SimilaritySum(similar_keywords, "cpc")
    IN  /\ IF vsum < 0 THEN metrics.search_volume = 0
           ELSE metrics.search_volume >= 0 /\ Near(metrics.search_volume, vsum, total, 1)
        /\ IF csum < 0 THEN metrics.cpc = 0
           ELSE metrics.cpc >= 0 /\ Near(metrics.cpc, Prec * csum, total, 1)
        /\ ClampedQuotientIs(metrics.keyword_difficulty,
              Prec * SimilaritySum(similar_keywords, "keyword_difficulty"), total, 100 * Prec)
        /\ ClampedQuotientIs(metrics.competition,
              Prec * SimilaritySum(similar_keywords, "competition"), total, 100 * Prec)

\* C6 (as claimed): every non-empty match list other than a single match of
\* similarity > 0.99 is estimated by the similarity-weighted means, also a
\* list of several matches one of which has similarity > 0.99.
C6_WeightedUnlessSingleNearExact ==
    ( /\ Estimated
      /\ similar_keywords # <<>>
      /\ ~(Len(similar_keywords) = 1 /\ ~NoNearExact)
      /\ SimilaritySum(similar_keywords, "") > 0
      /\ ~LongTail /\ ~Question /\ ~Brand )
    => MetricsAreWeightedMeans

\* C6 (amended): a non-empty match list in which no match has similarity
\* > 0.99 is estimated by the similarity-weighted means
\* sum(metric_i * similarity_i) / sum(similarity_i) of the four metrics
\* (seen on keywords that meet no adjustment condition).
C6_WeightedWithoutNearExact ==
    (WeightedPath /\ ~LongTail /\ ~Question /\ ~Brand) => MetricsAreWeightedMeans

\* several matches of different similarity and metrics were averaged
C6_Witness ==
    /\ WeightedPath /\ ~LongTail /\ ~Question /\ ~Brand
    /\ Len(similar_keywords) >= 2
    /\ similar_keywords[1].similarity # similar_keywords[2].similarity
    /\ similar_keywords[1].metrics.cpc # similar_keywords[2].metrics.cpc

\* C7: a single match of similarity > 0.99 is returned with its four
\* metrics unchanged, whatever the keyword, and with confidence 1.0.
C7_SingleNearExactVerbatim ==
    ( /\ Estimated
      /\ Len(similar_keywords) = 1
      /\ 100 * similar_keywords[1].similarity > 99 * SimScale )
    => /\ metrics.search_volume = similar_keywords[1].metrics.search_volume
       /\ metrics.cpc = Prec * similar_keywords[1].metrics.cpc
       /\ metrics.keyword_difficulty = Prec * similar_keywords[1].metrics.keyword_difficulty
       /\ metrics.competition = Prec * similar_keywords[1].metrics.competition
       /\ metrics.confidence = SimScale

\* a near-exact single match for a long-tail, interrogative brand keyword
C7_Witness ==
    /\ Estimated
    /\ Len(similar_keywords) = 1
    /\ similar_keywords[1].similarity > NearExact
    /\ similar_keywords[1].metrics.search_volume > 0
    /\ similar_keywords[1].metrics.competition > 0
    /\ LongTail /\ Question /\ Brand

\* the product of the volume factors, in 1/1000
VolumeFactor ==
    (IF LongTail THEN 8 ELSE 10) * (IF Question THEN 9 ELSE 10) * (IF Brand THEN 12 ELSE 10)
\* the product of the competition factors, in 1/100
CompetitionFactor == (IF LongTail THEN 7 ELSE 10) * (IF Brand THEN 11 ELSE 10)
\* the cpc factor, in 1/10
CpcFactor == IF Question THEN 9 ELSE 10

Clamp(x, cap) == Max(0, Min(cap, x))

\* the estimate is the weighted base times the factors of the conditions the
\* keyword meets: the product of the factors is formed at once here and
\* factor by factor, rounding each time, in the estimate; the two differ by
\* at most 3 units of 1/Prec
MetricsAreAdjustedBase ==
    LET volume == (WeightedMean(similar_keywords, "search_volume") * VolumeFactor) \div 1000
        competition == (WeightedMean(similar_keywords, "competition") * CompetitionFactor) \div 100
        cpc == WeightedMean(similar_keywords, "cpc") * CpcFactor
    IN  /\ metrics.search_volume >= Max(0, volume - 3) \div Prec
        /\ metrics.search_volume <= Max(0, volume + 3) \div Prec
        /\ metrics.competition >= Clamp(competition - 3, 100 * Prec)
        /\ metrics.competition <= Clamp(competition + 3, 100 * Prec)
        /\ IF cpc < 0 THEN metrics.cpc = 0
                      ELSE metrics.cpc >= 0 /\ Near(metrics.cpc, cpc, 10, 1)
        /\ metrics.keyword_difficulty =
              Clamp(WeightedMean(similar_keywords, "keyword_difficulty"), 100 * Prec)
        /\ (~LongTail /\ ~Question /\ ~Brand) =>
              /\ metrics.search_volume = Max(0, WeightedMean(similar_keywords, "search_volume")) \div Prec
              /\ metrics.competition = Clamp(WeightedMean(similar_keywords, "competition"), 100 * Prec)
              /\ metrics.cpc = Max(0, WeightedMean(similar_keywords, "cpc"))

\* the corpus of the example, and the example with a second row
ExampleCorpus == semrush_keywords = << RowPool[1] >>
ExampleCorpusWithRun == semrush_keywords = << RowPool[1], RowPool[4] >>
ExampleCandidate == Estimated /\ keyword = K_best_running_shoes_for_marathon

\* C8 (as claimed): on the weighted path the estimate is the weighted base
\* times 0.8 / 0.9 / 1.2 (volume), 0.7 / 1.1 (competition), 0.9 (cpc) for the
\* conditions met; and the corpus 'running shoes' with the candidate 'best
\* running shoes for marathon' gives a volume in [7000, 8000] and a
\* competition in [0.42, 0.48].
C8_AdjustmentsAndExample ==
    /\ WeightedPath => MetricsAreAdjustedBase
    /\ (ExampleCorpus /\ ExampleCandidate) =>
          /\ metrics.search_volume >= 7000 /\ metrics.search_volume <= 8000
          /\ metrics.competition >= 42 * Prec /\ metrics.competition <= 48 * Prec

\* C8 (amended): the same adjustments; for the single-row corpus the only
\* match has similarity > 0.99, so the candidate gets the row's metrics
\* unadjusted (volume 10000, competition 0.6); with the row 'run' added to
\* the corpus the similarity is below 0.99 and the candidate gets a volume
\* in [7000, 8000] and a competition in [0.42, 0.48].
C8_AdjustmentsAndNearExactExample ==
    /\ WeightedPath => MetricsAreAdjustedBase
    /\ (ExampleCorpus /\ ExampleCandidate) =>
          /\ Len(similar_keywords) = 1
          /\ 100 * similar_keywords[1].similarity > 99 * SimScale
          /\ metrics.search_volume = 10000
          /\ metrics.competition = 60 * Prec
    /\ (ExampleCorpusWithRun /\ ExampleCandidate) =>
          /\ Len(similar_keywords) = 1
          /\ 100 * similar_keywords[1].similarity <= 99 * SimScale
          /\ metrics.search_volume >= 7000 /\ metrics.search_volume <= 8000
          /\ metrics.competition >= 42 * Prec /\ metrics.competition <= 48 * Prec

\* a weighted estimate for a keyword that meets all three conditions
C8_Witness ==
    /\ WeightedPath
    /\ LongTail /\ Question /\ Brand
    /\ metrics.search_volume > 0
    /\ metrics.competition > 0 /\ metrics.competition < 100 * Prec

\* the list is base_keywords plus the match at position pos
InsertedAt(pos) ==
    /\ pos \in DOMAIN similar_keywords
    /\ base_keywords = SubSeq(similar_keywords, 1, pos - 1)
                         \o SubSeq(similar_keywords, pos + 1, Len(similar_keywords))

\* C9: a match list extended by one match of similarity > 0 that is at least
\* as similar as every match of the list has a confidence at least as high.
C9_ConfidenceMonotoneInStrongerMatch ==
    ( /\ pc = "extended"
      /\ \E pos \in DOMAIN similar_keywords :
            /\ InsertedAt(pos)
            /\ similar_keywords[pos].similarity > 0
            /\ \A i \in DOMAIN base_keywords :
                  similar_keywords[pos].similarity >= base_keywords[i].similarity )
    => metrics.confidence >= base_metrics.confidence

\* a stronger match raised the confidence of a weighted estimate
C9_Witness ==
    /\ pc = "extended"
    /\ base_keywords # <<>>
    /\ \E pos \in DOMAIN similar_keywords :
          /\ InsertedAt(pos)
          /\ \A i \in DOMAIN base_keywords :
                similar_keywords[pos].similarity > base_keywords[i].similarity
    /\ NoNearExact
    /\ metrics.confidence > base_metrics.confidence
    /\ base_metrics.confidence > 0

\* C10 (as claimed): adding any match of similarity > 0.3 to a non-empty
\* list never lowers the confidence, which stays at most the ceiling.
C10_ConfidenceMonotoneInCount ==
    ( /\ pc = "extended"
      /\ base_keywords # <<>>
      /\ \E pos \in DOMAIN similar_keywords :
            /\ InsertedAt(pos)
            /\ 10 * similar_keywords[pos].similarity > 3 * SimScale )
    => /\ metrics.confidence >= base_metrics.confidence
       /\ metrics.confidence <= SimScale

\* C10 (amended): adding a match of similarity > 0.3 that is at least the
\* mean similarity of a non-empty list never lowers the confidence, which
\* stays at most 1.0 (a match below the mean can lower it).
C10_ConfidenceMonotoneAboveMean ==
    ( /\ pc = "extended"
      /\ base_keywords # <<>>
      /\ \E pos \in DOMAIN similar_keywords :
            /\ InsertedAt(pos)
            /\ 10 * similar_keywords[pos].similarity > 3 * SimScale
            /\ similar_keywords[pos].similarity * Len(base_keywords)
                  >= SimilaritySum(base_keywords, "") )
    => /\ metrics.confidence >= base_metrics.confidence
       /\ metrics.confidence <= SimScale

\* a match between the mean and the maximum of the list was added
C10_Witness ==
    /\ pc = "extended"
    /\ Len(base_keywords) >= 2
    /\ NoNearExact
    /\ \E pos \in DOMAIN similar_keywords :
          /\ InsertedAt(pos)
          /\ similar_keywords[pos].similarity * Len(base_keywords)
                >= SimilaritySum(base_keywords, "")
          /\ \E i \in DOMAIN base_keywords :
                similar_keywords[pos].similarity < base_keywords[i].similarity
    /\ metrics.confidence < SimScale

(* ------------------- the composite scorer and the ranker ---------------- *)
\* _calculate_composite_metrics has returned
Scored == pc \in {"scored", "rescored"}

\* C11: after _calculate_composite_metrics every keyword of the batch has
\* 0.0 <= efficiency_index <= 1.0, whatever the metrics and confidences.
C11_EfficiencyBound ==
    Scored =>
        \A i \in DOMAIN variants :
            /\ variants[i].efficiency_index >= 0
            /\ variants[i].efficiency_index <= SimScale

\* a scored batch in which the formula is below 0 for one keyword, which
\* gets 0.0, and inside (0, 1) for another
C11_Witness ==
    /\ pc = "scored"
    /\ \E i, j \in DOMAIN variants :
          /\ EfficiencyIndexUnclamped(variants[i], MaxOr1(variants, "search_volume"),
                                      MaxOr1(variants, "cpc")) < 0
          /\ variants[i].efficiency_index = 0
          /\ variants[j].efficiency_index > 0
          /\ variants[j].efficiency_index < SimScale

\* the batch maximum of a field, 0 treated as 1
BatchMax(field) ==
    LET mx == CHOOSE x \in { variants[i][field] : i \in DOMAIN variants } :
                 \A j \in DOMAIN variants : variants[j][field] <= x
    IN  IF mx = 0 THEN 1 ELSE mx

\* value / maximum in 1/SimScale, capped at 1.0 when capped is TRUE
Normalised(value, maximum, capped) ==
    LET q == IF maximum < 0
               THEN (2 * (0 - value) * SimScale - maximum) \div (2 * (0 - maximum))
               ELSE (2 * value * SimScale + maximum) \div (2 * maximum)
    IN  IF capped /\ q > SimScale THEN SimScale ELSE q

\* clamp01((0.4*volume_score + 0.25*(1 - difficulty/100) + 0.25*(1 - competition)
\*          + 0.1*cpc_score) * (0.5 + 0.5*confidence)) of keyword number i
FormulaIndex(i, capped) ==
    LET k == variants[i]
        sum == 40 * Normalised(k.search_volume, BatchMax("search_volume"), capped)
                 + 25 * (SimScale - k.keyword_difficulty)
                 + 25 * (SimScale - k.competition_percentage)
                 + 10 * Normalised(k.cpc, BatchMax("cpc"), capped)
        weighted == (2 * sum + 100) \div 200
        product == MulRoundDiv(weighted, SimScale + k.confidence_score, 2 * SimScale)
    IN  Clamp(product, SimScale)

TotalNeeded == 12

\* _rank_and_prioritize has returned
Ranked == pc = "ranked"

\* C13: _rank_and_prioritize returns exactly min(total_needed, n) keywords of
\* a scored batch of n keywords, total_needed being 12.
C13_BoundedSelection ==
    Ranked => Len(ranked) = Min(TotalNeeded, Len(variants))

\* C14: the returned sequence is sorted by efficiency_index in non-increasing
\* order over its whole length.
C14_SortedOverWholeLength ==
    Ranked =>
        \A i \in 1..(Len(ranked) - 1) :
            ranked[i].efficiency_index >= ranked[i + 1].efficiency_index

\* the bucket of a keyword by the rules in order: an interrogative among the
\* words of the keyword, else the word count
BucketByWord(kw) ==
    IF \E i \in DOMAIN Split(Lower(kw)) : Split(Lower(kw))[i] \in QuestionWords
      THEN "question_based"
    ELSE IF Len(Split(kw)) <= 2 THEN "short_tail"
    ELSE IF Len(Split(kw)) <= 4 THEN "medium_tail"
    ELSE "long_tail"

\* C15: the ranker puts every keyword in one bucket by the rules in order:
\* question_based if an interrogative is a word of the keyword, else
\* short_tail for at most 2 words, else medium_tail for at most 4, else
\* long_tail; an interrogative inside a longer word does not count.
C15_BucketRules ==
    Ranked =>
        \A i \in DOMAIN variants :
            Segment(variants[i].keyword) = BucketByWord(variants[i].keyword)

\* the keywords of a list that are in a bucket
InBucket(kws, name) ==
    { i \in DOMAIN kws : BucketByWord(kws[i].keyword) = name }

\* the keywords of the bucket that are returned are its n best
BestOfBucket(name, n) ==
    /\ Cardinality(InBucket(ranked, name)) = n
    /\ \A i \in InBucket(ranked, name) :
          Cardinality({ j \in InBucket(variants, name) :
                          variants[j].efficiency_index > ranked[i].efficiency_index }) < n

\* C16: the selection is the best keywords of each bucket up to its quota,
\* filled up to total_needed from the leftover; of a batch of 20 with 3
\* question_based, 10 medium_tail, 5 short_tail and 2 long_tail keywords the
\* result holds exactly the 3 question_based, the 2 long_tail, the 5 best
\* medium_tail and the 2 best short_tail keywords.
C16_QuotaSelectionExample ==
    ( /\ Ranked
      /\ Len(variants) = 20
      /\ Cardinality(InBucket(variants, "question_based")) = 3
      /\ Cardinality(InBucket(variants, "medium_tail")) = 10
      /\ Cardinality(InBucket(variants, "short_tail")) = 5
      /\ Cardinality(InBucket(variants, "long_tail")) = 2 )
    => /\ Len(ranked) = TotalNeeded
       /\ BestOfBucket("question_based", 3)
       /\ BestOfBucket("long_tail", 2)
       /\ BestOfBucket("medium_tail", 5)
       /\ BestOfBucket("short_tail", 2)

\* C17: of a batch with at least total_needed keywords and at least the quota
\* of every bucket in that bucket, the first total_needed keywords returned
\* include a keyword of every bucket.
C17_DiversityOfFirstTotalNeeded ==
    ( /\ Ranked
      /\ Len(variants) >= TotalNeeded
      /\ Cardinality(InBucket(variants, "short_tail")) >= ShortQuota
      /\ Cardinality(InBucket(variants, "medium_tail")) >= MediumQuota
      /\ Cardinality(InBucket(variants, "long_tail")) >= LongQuota
      /\ Cardinality(InBucket(variants, "question_based")) >= QuestionQuota )
    => \A name \in {"short_tail", "medium_tail", "long_tail", "question_based"} :
          \E i \in 1..Min(TotalNeeded, Len(ranked)) :
              BucketByWord(ranked[i].keyword) = name

\* the number of elements of a list of variants with the keyword kw
Occurrences(kws, kw) == Cardinality({ i \in DOMAIN kws : kws[i].keyword = kw })

\* C18: no candidate is dropped by the batch operations: every keyword handed
\* to _enrich_keywords is in its result and in the results of
\* _calculate_composite_metrics and _rank_and_prioritize, a candidate whose
\* scoring fails being carried through with the default metrics.
C18_NoCandidateDropped ==
    /\ pc \in {"enriched", "scored", "rescored", "rerun"} =>
          /\ Len(variants) = Len(batch)
          /\ \A i \in DOMAIN variants : variants[i].keyword = batch[i]
    /\ pc = "ranked" =>
          \A i \in DOMAIN batch :
              Occurrences(ranked, batch[i])
                  = Cardinality({ j \in DOMAIN batch : batch[j] = batch[i] })

\* the generator is past its constructor
Constructed == pc \notin {"new", "raised"}

\* C19: building the index from an empty corpus fails: with zero rows
\* _initialize_keyword_similarity raises, the constructor raises, and no
\* generator with an index of the empty corpus is available for scoring.
C19_EmptyCorpusRaises ==
    /\ Constructed =>
          /\ semrush_keywords # <<>>
          /\ DOMAIN char_idf # {}
          /\ DOMAIN word_idf # {}
    /\ (pc # "new" /\ semrush_keywords = <<>>) =>
          /\ pc = "raised"
          /\ char_vectors = <<>>
          /\ word_vectors = <<>>
          /\ variants = <<>>
          /\ ranked = <<>>

\* the constructor was called on the empty table and has raised
C19_Witness ==
    /\ pc = "raised"
    /\ semrush_keywords = <<>>
    /\ DOMAIN keyword_data_map = {}

\* C20: the pipeline is repeatable: _find_similar_keywords, _estimate_metrics
\* and _calculate_composite_metrics run a second time on the same keywords
\* against the same index, or the scorer run again on the variants it has
\* scored, give the variants of the first run.
C20_Repeatable ==
    pc \in {"rerun", "rescored"} => variants = prev_variants

\* the scorer was run again on a scored batch of several keywords, one of
\* them with an index inside (0, 1)
C20_Witness ==
    /\ pc = "rescored"
    /\ Len(variants) >= 2
    /\ \E i \in DOMAIN variants :
          /\ variants[i].efficiency_index > 0
          /\ variants[i].efficiency_index < SimScale
          /\ variants[i].similar_keywords # <<>>

\* C21: after construction the index is read-only: no call of
\* _find_similar_keywords, _estimate_metrics, _enrich_keywords,
\* _calculate_composite_metrics or _rank_and_prioritize, in any order and any
\* number of times, changes semrush_keywords, keyword_data_map, the fitted
\* vectorizers or the corpus vectors.
C21_IndexReadOnly == [][pc # "new" => UNCHANGED index_vars]_vars

\* all five operations have been called on a built index and have returned
\* something
C21_Witness ==
    /\ pc = "ready"
    /\ similar_keywords # <<>>
    /\ metrics.confidence > 0
    /\ ranked # <<>>
    /\ ranked[1].efficiency_index > 0
    /\ variants = ranked
    /\ keyword # ranked[1].keyword

\* the number of elements of a list that are equal to x
Copies(kws, x) == Cardinality({ i \in DOMAIN kws : kws[i] = x })

\* C27: the list returned by _rank_and_prioritize is a permutation of its
\* input: the same length and the same keyword objects as often, also when
\* the input holds two variants whose fields are all equal.
C27_RankedIsPermutation ==
    Ranked =>
        /\ Len(ranked) = Len(variants)
        /\ \A i \in DOMAIN variants :
              Copies(ranked, variants[i]) = Copies(variants, variants[i])

\* C28: generate_keyword_variants deduplicates the retrieved and generated
\* keywords before enrichment: each keyword string is at most once in the
\* list it returns, also when a keyword is both retrieved and generated or is
\* in several retrieved content items.
C28_ReturnedKeywordsDistinct ==
    pc = "generated" =>
        \A i, j \in DOMAIN ranked :
            ranked[i].keyword = ranked[j].keyword => i = j

\* C24: after _fast_retrieval has stored a result for a cache key, a later
\* _fast_retrieval call with the same key made before cache_expiry seconds
\* have passed returns the stored result without querying the retriever
\* again, whatever calls with other keys come in between.
C24_StoredResultReturned ==
    (cache_call.op = "fast_retrieval" /\ cache_call.stored_before # None)
    => /\ ~queried
       /\ returned = cache_call.stored_before

\* a result returned from the cache was stored less than cache_expiry
\* seconds before the call
ReturnedIsFresh ==
    (cache_call.op # "none" /\ ~queried /\ returned # None)
    => now - returned < CacheExpiry

\* after a lookup of a key its entry in query_cache, if any, has not expired
ExpiredEntryRemoved ==
    (cache_call.op = "lookup" /\ cache_call.key \in DOMAIN query_cache)
    => now - query_cache[cache_call.key].timestamp < CacheExpiry

\* C25: _get_cached_query_result never returns a result whose age is
\* cache_expiry seconds or more, also when the lru_cache wrapper evicts and
\* re-admits keys, and an expired entry found by a lookup is removed from
\* query_cache.
C25_NoExpiredResult ==
    /\ ReturnedIsFresh
    /\ ExpiredEntryRemoved

\* the lines of stream_query among the items of the client
Forwarded == SelectSeq(received, LAMBDA l : l.from = "stream_query")

\* the lines of stream_query but the one that get_next_item has returned and
\* event_generator has not yet taken
ProducedBefore ==
    IF pending.kind \in {"chunk", "final", "error", "done"}
      THEN SubSeq(produced, 1, Len(produced) - 1)
      ELSE produced

\* C22: the bridge forwards every line produced by stream_query to the
\* client exactly once and in the order produced, and the last item the
\* client receives is the [DONE] marker, on normal exhaustion, on an
\* upstream error and on timeout alike.
C22_ForwardedThenDone ==
    ~closed =>
      /\ Forwarded = ProducedBefore
      /\ eg_pc = "finished" =>
            /\ received # <<>>
            /\ received[Len(received)].kind = "done"

\* the stream has ended after an upstream error that followed a text piece
C22_Witness ==
    /\ ~closed
    /\ eg_pc = "finished"
    /\ \E i \in DOMAIN produced : produced[i].kind = "error" /\ produced[i].n > 0

\* C23: in every run of the streaming endpoint the client receives the
\* [DONE] marker exactly once and no item follows it, on normal completion,
\* on an exception of the upstream generator and on the timeout exit.
C23_DoneExactlyOnce ==
    (~closed /\ eg_pc = "finished") =>
      /\ Cardinality({i \in DOMAIN received : received[i].kind = "done"}) = 1
      /\ received[Len(received)].kind = "done"

\* C30: when the consumer closes the stream before the upstream generator is
\* exhausted, event_generator and stream_query finish without yielding any
\* further item and without raising, and the LLM stream is not pulled for
\* another chunk after the close.
C30_CloseStopsBoth ==
    closed =>
      /\ discarded = <<>>
      /\ ~close_raised
      /\ ~late_pull

\* C26: KnowledgeBase.query returns a dictionary with the keys response,
\* sources, citations and metadata for every query string, with and without
\* attribution terms or attribution_analysis; it never ends with an
\* unassigned result or a None return for a query without attribution terms.
C26_QueryReturnsResult ==
    (q_outcome.kind # "none" /\ q_request.llm = "ok")
    => /\ q_outcome.kind = "returned"
       /\ {"response", "sources", "citations", "metadata"} \subseteq q_outcome.keys

\* C29: the model of a request's completion call is the one its own
\* detail_level selects, and the citations a request reports are those of
\* its own completion call, for every interleaving of two concurrent
\* requests that share the KnowledgeBase and its PerplexityLLM.
C29_OwnModelAndCitations ==
    \A r \in 1..2 :
        /\ requests[r].pc \in {"store", "read", "done"}
             => requests[r].used_model = ModelFor(requests[r].detail_level)
        /\ requests[r].pc = "done" => requests[r].reported = r

====
